---- MODULE Spec2Model ----
(***************************************************************************)
(* A model of quickstatements_client: the line data model, its field       *)
(* validation, the date encoding and the renderers.                        *)
(*                                                                         *)
(* A Python str is modelled as a sequence of characters, each character a  *)
(* one-character TLA+ string ("U+00E9" stands for the one character        *)
(* e-acute, which TLA+ source cannot spell).                               *)
(***************************************************************************)
EXTENDS Integers, Sequences, FiniteSets, TLC

VARIABLES
    pydantic,   \* the pydantic major version the package runs on: "v1" or "v2"
    lines,      \* the caller's batch: the line objects constructed and kept so far
    res         \* what the last call did: its arguments, return value or error

vars == <<pydantic, lines, res>>

----------------------------------------------------------------------------
(* Optional arguments.                                                     *)

None == [some |-> FALSE]
Some(v) == [some |-> TRUE, v |-> v]

----------------------------------------------------------------------------
(* Strings.                                                                *)

DigitChars == <<"0", "1", "2", "3", "4", "5", "6", "7", "8", "9">>

IsDigit(c) == \E k \in 1..10 : DigitChars[k] = c

\* The value None where a str is expected; no character is "None", so no
\* string is this value.
PyNone == <<"None">>

\* isinstance(v, str)
IsStr(v) == \A k \in 1..Len(v) : v[k] # "None"

RECURSIVE Concat(_)
\* The concatenation of a sequence of strings.
Concat(ss) == IF ss = <<>> THEN <<>> ELSE Head(ss) \o Concat(Tail(ss))

RECURSIVE Join(_, _)
\* str.join: the parts with sep between each two neighbours.
Join(sep, parts) ==
    IF parts = <<>> THEN <<>>
    ELSE IF Len(parts) = 1 THEN parts[1]
    ELSE parts[1] \o sep \o Join(sep, Tail(parts))

----------------------------------------------------------------------------
(* Regular expressions, as pydantic applies a field's pattern.             *)
(* A pattern is the syntax tree Python's (and Rust's) regex grammar gives  *)
(* the pattern text: alternation binds weaker than concatenation, so       *)
(* ^(LAST)|(Q\d+)$ is the alternation of ^(LAST) and (Q\d+)$.              *)

Bol == [t |-> "bol"]
Eol == [t |-> "eol"]
Digit == [t |-> "digit"]
Lit(s) == [t |-> "lit", s |-> s]
OneOf(cs) == [t |-> "set", cs |-> cs]
Cat(rs) == [t |-> "cat", rs |-> rs]
Alt(rs) == [t |-> "alt", rs |-> rs]
Plus(r) == [t |-> "plus", r |-> r]

RECURSIVE Ends(_, _, _, _)
RECURSIVE CatEnds(_, _, _, _)
RECURSIVE PlusEnds(_, _, _, _, _)
\* The positions at which a match of r that starts at position i of s can end.
\* $ matches at the end of the text and, in Python only, just before a newline
\* that ends it.
Ends(engine, r, s, i) ==
    CASE r.t = "bol" -> IF i = 1 THEN {i} ELSE {}
      [] r.t = "eol" ->
            IF i = Len(s) + 1 THEN {i}
            ELSE IF engine = "python" /\ i = Len(s) /\ s[i] = "\n" THEN {i}
            ELSE {}
      [] r.t = "digit" -> IF i <= Len(s) /\ IsDigit(s[i]) THEN {i + 1} ELSE {}
      [] r.t = "set" -> IF i <= Len(s) /\ s[i] \in r.cs THEN {i + 1} ELSE {}
      [] r.t = "lit" ->
            IF i + Len(r.s) - 1 <= Len(s) /\ SubSeq(s, i, i + Len(r.s) - 1) = r.s
            THEN {i + Len(r.s)} ELSE {}
      [] r.t = "cat" -> CatEnds(engine, r.rs, s, {i})
      [] r.t = "alt" ->
            UNION {Ends(engine, r.rs[k], s, i) : k \in 1..Len(r.rs)}
      [] r.t = "plus" ->
            PlusEnds(engine, r.r, s, Ends(engine, r.r, s, i), {})

CatEnds(engine, rs, s, from) ==
    IF rs = <<>> THEN from
    ELSE CatEnds(engine, Tail(rs), s,
                 UNION {Ends(engine, Head(rs), s, i) : i \in from})

PlusEnds(engine, r, s, frontier, seen) ==
    IF frontier \subseteq seen THEN seen
    ELSE PlusEnds(engine, r, s,
                  UNION {Ends(engine, r, s, i) : i \in frontier} \ (seen \cup frontier),
                  seen \cup frontier)

\* pydantic 1 (ConstrainedStr.validate): re.match, the match starts at the
\* first character. pydantic 2 (pydantic-core): Regex::is_match, the match
\* may start anywhere.
Matches(version, r, s) ==
    IF version = "v1"
    THEN Ends("python", r, s, 1) # {}
    ELSE \E i \in 1..(Len(s) + 1) : Ends("rust", r, s, i) # {}

----------------------------------------------------------------------------
(* The field patterns of the data model.                                   *)

LAST == <<"L", "A", "S", "T">>

\* The language codes read from language_codes/data.json.
LANGUAGE_CODES == {<<"e", "n">>, <<"d", "e">>}

\* r"^[PQS]\d+$"
QualifierPattern == Cat(<<Bol, OneOf({"P", "Q", "S"}), Plus(Digit), Eol>>)

\* r"^(LAST)|(Q\d+)$"
SubjectPattern ==
    Alt(<<Cat(<<Bol, Lit(LAST)>>), Cat(<<Lit(<<"Q">>), Plus(Digit), Eol>>)>>)

\* rf"^(P\d+)|([ADL]({'|'.join(LANGUAGE_CODES)}))$"
PredicatePattern ==
    LET pick[S \in SUBSET LANGUAGE_CODES] ==
            IF S = {} THEN <<>>
            ELSE LET c == CHOOSE x \in S : TRUE
                 IN <<Lit(c)>> \o pick[S \ {c}]
        codes == Alt(pick[LANGUAGE_CODES])
    IN  Alt(<<Cat(<<Bol, Lit(<<"P">>), Plus(Digit)>>),
              Cat(<<OneOf({"A", "D", "L"}), codes, Eol>>)>>)

\* r"^Q\d+$"
EntityTargetPattern == Cat(<<Bol, Lit(<<"Q">>), Plus(Digit), Eol>>)

----------------------------------------------------------------------------
(* The objects of the data model and their construction. A constructor     *)
(* returns [ok |-> TRUE, obj |-> the object] or, when a field fails its    *)
(* pattern, [ok |-> FALSE, err |-> "ValidationError", fields |-> the       *)
(* offending fields] and no object.                                        *)

Constructed(obj) == [ok |-> TRUE, obj |-> obj]
ValidationError(fields) == [ok |-> FALSE, err |-> "ValidationError", fields |-> fields]
Validated(fields, obj) ==
    IF fields = {} THEN Constructed(obj) ELSE ValidationError(fields)

\* A field annotated str with a pattern: the value is a str that matches.
Failing(version, name, pattern, value) ==
    IF IsStr(value) /\ Matches(version, pattern, value) THEN {} ELSE {name}

\* A field annotated str with no pattern: the value is a str.
FailingStr(name, value) == IF IsStr(value) THEN {} ELSE {name}

EntityQualifier(version, predicate, target) ==
    Validated(Failing(version, "predicate", QualifierPattern, predicate)
                \cup Failing(version, "target", QualifierPattern, target),
              [type |-> "Entity", predicate |-> predicate, target |-> target])

DateQualifier(version, predicate, target) ==
    Validated(Failing(version, "predicate", QualifierPattern, predicate)
                \cup FailingStr("target", target),
              [type |-> "Date", predicate |-> predicate, target |-> target])

TextQualifier(version, predicate, target) ==
    Validated(Failing(version, "predicate", QualifierPattern, predicate)
                \cup FailingStr("target", target),
              [type |-> "Text", predicate |-> predicate, target |-> target])

CreateLine == Constructed([type |-> "Create"])

\* The subject and predicate fields EntityLine and TextLine inherit.
BaseLineFailing(version, subject, predicate) ==
    Failing(version, "subject", SubjectPattern, subject)
        \cup Failing(version, "predicate", PredicatePattern, predicate)

EntityLine(version, subject, predicate, target, qualifiers) ==
    Validated(BaseLineFailing(version, subject, predicate)
                \cup Failing(version, "target", EntityTargetPattern, target),
              [type |-> "Entity", subject |-> subject, predicate |-> predicate,
               target |-> target, qualifiers |-> qualifiers])

\* TextLine validating no field's type: any value is stored as it comes.
TextLineUnchecked(version, subject, predicate, target, qualifiers) ==
    Constructed([type |-> "Text", subject |-> subject, predicate |-> predicate,
                 target |-> target, qualifiers |-> qualifiers])

TextLine(version, subject, predicate, target, qualifiers) ==
    Validated(BaseLineFailing(version, subject, predicate)
                \cup FailingStr("target", target),
              [type |-> "Text", subject |-> subject, predicate |-> predicate,
               target |-> target, qualifiers |-> qualifiers])

----------------------------------------------------------------------------
(* Date encoding.                                                          *)

RECURSIVE Decimal(_)
\* str(n) of a natural number n.
Decimal(n) ==
    IF n < 10 THEN <<DigitChars[n + 1]>>
    ELSE Decimal(n \div 10) \o <<DigitChars[(n % 10) + 1]>>

RECURSIVE Zeros(_)
Zeros(k) == IF k <= 0 THEN <<>> ELSE <<"0">> \o Zeros(k - 1)

\* f"{n:0w}" of a natural number n: zero-padded on the left to w characters.
ZeroPadded(n, w) == Zeros(w - Len(Decimal(n))) \o Decimal(n)

\* format_date without the zero-padding.
format_date_unpadded(precision, year, month, day, hour, minute, second) ==
    <<"+">> \o Decimal(year) \o <<"-">> \o Decimal(month) \o <<"-">> \o Decimal(day)
        \o <<"T">> \o Decimal(hour) \o <<":">> \o Decimal(minute) \o <<":">>
        \o Decimal(second) \o <<"Z", "/">> \o Decimal(precision)

format_date(precision, year, month, day, hour, minute, second) ==
    <<"+">> \o ZeroPadded(year, 4) \o <<"-">> \o ZeroPadded(month, 2)
        \o <<"-">> \o ZeroPadded(day, 2) \o <<"T">> \o ZeroPadded(hour, 2)
        \o <<":">> \o ZeroPadded(minute, 2) \o <<":">> \o ZeroPadded(second, 2)
        \o <<"Z", "/">> \o Decimal(precision)

Returned(val) == [ok |-> TRUE, val |-> val]
Raised(err) == [ok |-> FALSE, err |-> err]

\* prepare_date falling back to day precision instead of raising.
prepare_date_lenient(target, precision) ==
    IF target.kind = "str" THEN Returned(target.s)
    ELSE IF target.kind # "datetime" THEN Raised("TypeError")
    ELSE Returned(format_date(11, target.year, target.month, target.day, 0, 0, 0))

\* prepare_date looking at the precision before the type of the target.
prepare_date_precision_first(target, precision) ==
    IF precision.some /\ precision.v \notin 9..14 THEN Raised("ValueError")
    ELSE prepare_date_lenient(target, precision)

\* A target is [kind |-> "str", s |-> a string], [kind |-> "datetime", year |-> ..
\* second |-> ..] or [kind |-> "other"] (neither of the two); precision is None
\* or Some(an integer).
prepare_date(target, precision) ==
    IF target.kind = "str" THEN Returned(target.s)
    ELSE IF target.kind # "datetime" THEN Raised("TypeError")
    ELSE
        LET p == IF precision.some THEN precision.v ELSE 11
        IN  CASE p = 11 ->
                    Returned(format_date(p, target.year, target.month, target.day, 0, 0, 0))
              [] p = 10 ->
                    Returned(format_date(p, target.year, target.month, 0, 0, 0, 0))
              [] p = 9 ->
                    Returned(format_date(p, target.year, 0, 0, 0, 0, 0))
              [] p = 12 ->
                    Returned(format_date(p, target.year, target.month, target.day,
                                         target.hour, 0, 0))
              [] p = 13 ->
                    Returned(format_date(p, target.year, target.month, target.day,
                                         target.hour, target.minute, 0))
              [] p = 14 ->
                    Returned(format_date(p, target.year, target.month, target.day,
                                         target.hour, target.minute, target.second))
              [] OTHER -> Raised("ValueError")

\* cls(predicate=..., target=prepare_date(...)): an error of prepare_date leaves
\* the constructor uncalled.
DateQualifierOf(version, predicate, target, precision) ==
    LET d == prepare_date(target, precision)
    IN  IF d.ok THEN DateQualifier(version, predicate, d.val) ELSE d

start_time(version, target, precision) ==
    DateQualifierOf(version, <<"P", "5", "8", "0">>, target, precision)

end_time(version, target, precision) ==
    DateQualifierOf(version, <<"P", "5", "8", "2">>, target, precision)

\* now is the instant datetime.datetime.now() gives.
retrieved(version, namespace, precision, now) ==
    DateQualifierOf(version, namespace \o <<"8", "1", "3">>, now, precision)

----------------------------------------------------------------------------
(* Rendering.                                                              *)

\* get_target of a qualifier, an EntityLine or a TextLine; f'"{self.target}"'
\* formats a target that is None as the text None.
get_target(obj) ==
    IF obj.type = "Text"
    THEN <<"\"">>
            \o (IF IsStr(obj.target) THEN obj.target ELSE <<"N", "o", "n", "e">>)
            \o <<"\"">>
    ELSE obj.target

RECURSIVE QualifierPartsReversed(_)
\* QualifierParts with the qualifiers taken last to first.
QualifierPartsReversed(qualifiers) ==
    IF qualifiers = <<>> THEN <<>>
    ELSE QualifierPartsReversed(Tail(qualifiers))
            \o <<Head(qualifiers).predicate, get_target(Head(qualifiers))>>

RECURSIVE QualifierParts(_)
\* What the loop of get_line appends to parts for the qualifiers.
QualifierParts(qualifiers) ==
    IF qualifiers = <<>> THEN <<>>
    ELSE <<Head(qualifiers).predicate, get_target(Head(qualifiers))>>
            \o QualifierParts(Tail(qualifiers))

DefaultSep == <<"|">>
DefaultNewline == <<"|", "|">>

\* An optional argument's value: the default when it is omitted.
Arg(given, default) == IF given.some THEN given.v ELSE default

\* The list parts of BaseLine.get_line.
LineParts(line) ==
    <<line.subject, line.predicate, get_target(line)>> \o QualifierParts(line.qualifiers)

get_line(line, sep) ==
    IF line.type = "Create" THEN <<"C", "R", "E", "A", "T", "E">>
    ELSE Join(Arg(sep, DefaultSep), LineParts(line))

\* line.get_line(sep=sep) as a call: sep.join(parts) raises TypeError when a
\* part is no str.
CallGetLine(line, sep) ==
    IF line.type # "Create" /\ \E k \in 1..Len(LineParts(line)) : ~IsStr(LineParts(line)[k])
    THEN Raised("TypeError")
    ELSE Returned(get_line(line, sep))

\* render_lines without sep=sep in its call of get_line.
render_lines_default_sep(ls, sep, newline) ==
    Join(Arg(newline, DefaultNewline), [k \in 1..Len(ls) |-> get_line(ls[k], None)])

render_lines(ls, sep, newline) ==
    Join(Arg(newline, DefaultNewline),
         [k \in 1..Len(ls) |-> get_line(ls[k], Some(Arg(sep, DefaultSep)))])

\* render_lines as a call: an error of a line's get_line ends it.
CallRenderLines(ls, sep, newline) ==
    IF \E k \in 1..Len(ls) : ~CallGetLine(ls[k], Some(Arg(sep, DefaultSep))).ok
    THEN Raised("TypeError")
    ELSE Returned(render_lines(ls, sep, newline))

----------------------------------------------------------------------------
(* URLs: urllib.parse.quote over the UTF-8 bytes of the text.              *)

\* The printable ASCII characters, from code 32 to code 126 ("U+0060" stands
\* for the grave accent).
Printable ==
    <<" ", "!", "\"", "#", "$", "%", "&", "'", "(", ")", "*", "+", ",", "-", ".", "/",
      "0", "1", "2", "3", "4", "5", "6", "7", "8", "9", ":", ";", "<", "=", ">", "?",
      "@", "A", "B", "C", "D", "E", "F", "G", "H", "I", "J", "K", "L", "M", "N", "O",
      "P", "Q", "R", "S", "T", "U", "V", "W", "X", "Y", "Z", "[", "\\", "]", "^", "_",
      "U+0060", "a", "b", "c", "d", "e", "f", "g", "h", "i", "j", "k", "l", "m", "n", "o",
      "p", "q", "r", "s", "t", "u", "v", "w", "x", "y", "z", "{", "|", "}", "~">>

\* The code point of a character.
Ord(c) ==
    IF c = "\n" THEN 10
    ELSE IF c = "U+00E9" THEN 233
    ELSE 31 + (CHOOSE k \in 1..Len(Printable) : Printable[k] = c)

HexChars == DigitChars \o <<"A", "B", "C", "D", "E", "F">>

\* The bytes quote never encodes: ASCII letters, digits and "_.-~".
AlwaysSafe ==
    {Ord(Printable[k]) : k \in {j \in 1..Len(Printable) :
        \/ j \in 34..59 \/ j \in 66..91 \/ IsDigit(Printable[j])
        \/ Printable[j] \in {"_", ".", "-", "~"}}}

\* quote of the bytes of a string: a byte that is always safe or in safe is
\* kept, any other becomes "%{:02X}".format(byte).
RECURSIVE QuoteBytes(_, _)
QuoteBytes(bytes, safe) ==
    LET b == Head(bytes)
    IN  IF bytes = <<>> THEN <<>>
        ELSE (IF b \in AlwaysSafe \cup {Ord(c) : c \in safe}
              THEN <<Printable[b - 31]>>
              ELSE <<"%", HexChars[(b \div 16) + 1], HexChars[(b % 16) + 1]>>)
             \o QuoteBytes(Tail(bytes), safe)

\* urllib.parse.quote(string, safe=safe): the string is encoded as UTF-8 (code
\* points below 65536) and its bytes are quoted.
quote(string, safe) ==
    LET utf8(c) ==
            LET cp == Ord(c)
            IN  IF cp < 128 THEN <<cp>>
                ELSE IF cp < 2048 THEN <<192 + (cp \div 64), 128 + (cp % 64)>>
                ELSE <<224 + (cp \div 4096), 128 + ((cp \div 64) % 64),
                       128 + (cp % 64)>>
    IN  QuoteBytes(Concat([k \in 1..Len(string) |-> utf8(string[k])]), safe)

UrlPrefix ==
    <<"h", "t", "t", "p", "s", ":", "/", "/", "q", "u", "i", "c", "k", "s", "t", "a",
      "t", "e", "m", "e", "n", "t", "s", ".", "t", "o", "o", "l", "f", "o", "r", "g",
      "e", ".", "o", "r", "g", "/", "#", "/", "v", "1", "=">>

\* lines_to_url with quote's default safe="/".
lines_to_url_slash_safe(ls) == UrlPrefix \o quote(render_lines(ls, None, None), {"/"})

lines_to_url(ls) == UrlPrefix \o quote(render_lines(ls, None, None), {})


\* QuickStatementsClient.open_new_tab. webbrowser.open_new_tab(url) opens the
\* tab and returns whether a browser was launched, which the host decides.
open_new_tab(ls, launched) ==
    [ok |-> TRUE, val |-> launched, opened |-> <<lines_to_url(ls)>>]

\* model.lines_to_new_tab
lines_to_new_tab(ls, launched) ==
    IF ls = <<>> THEN [ok |-> TRUE, val |-> FALSE, opened |-> <<>>]
    ELSE [ok |-> TRUE, val |-> launched, opened |-> <<lines_to_url(ls)>>]

----------------------------------------------------------------------------
(* The callers' inputs.                                                    *)

Versions == {"v1", "v2"}

\* The most parts (lines plus qualifiers) a batch holds.
MaxParts == 3

Q1 == <<"Q", "1">>
P1 == <<"P", "1">>
Q2 == <<"Q", "2">>
NL == <<"\n">>

\* Strings offered as a subject, a line's predicate, an EntityLine's target and
\* a qualifier's predicate or entity target when construction is tried.
SubjectInputs ==
    {LAST, Q1, <<"Q", "4", "7">>, <<"4", "7">>, <<>>, <<"Q">>, LAST \o <<"x">>,
     <<"x">> \o LAST, <<"x">> \o Q1, Q1 \o <<"x">>, Q1 \o NL, LAST \o NL}

PredicateInputs ==
    {P1, <<"P", "1", "0", "8">>, <<"L", "e", "n">>, <<"D", "d", "e">>,
     <<"A", "e", "n">>, <<"L", "x", "x">>, <<"X", "e", "n">>, <<"P">>, P1 \o <<"x">>,
     <<"x">> \o P1, <<"x", "L", "e", "n">>, <<"L", "e", "n", "x">>,
     <<"L", "e", "n", "\n">>, Q1, <<>>}

QualifierIdInputs ==
    {P1, Q2, <<"S", "8", "5", "4">>, <<"X", "1">>, <<"P">>, <<"1">>, P1 \o <<"x">>,
     <<"x">> \o P1, P1 \o NL}

TextInputs == {<<"a">>, <<"a", "|", "\"">>, <<"%", "~", "U+00E9">>, <<>>}

Instants ==
    [kind : {"datetime"}, year : {7, 2021, 9999}, month : {2, 11}, day : {1, 15},
     hour : {0, 13}, minute : {5, 59}, second : {0, 9}]

Feb15 ==
    [kind |-> "datetime", year |-> 2021, month |-> 2, day |-> 15,
     hour |-> 0, minute |-> 0, second |-> 0]

\* The qualifiers and line fields a batch is built from.
BatchQualifiers(version) ==
    LET made == {EntityQualifier(version, <<"P", "3">>, <<"Q", "4">>),
                 TextQualifier(version, <<"S", "8">>, <<"%", "~", "U+00E9">>),
                 start_time(version, Feb15, None)}
    IN  {m.obj : m \in {x \in made : x.ok}}

RECURSIVE SeqsUpTo(_, _)
\* The sequences over S of length at most n.
SeqsUpTo(S, n) ==
    IF n = 0 THEN {<<>>}
    ELSE LET shorter == SeqsUpTo(S, n - 1)
         IN  shorter \cup {Append(q, x) : q \in shorter, x \in S}

SepArgs == {None, Some(<<"\t">>), Some(<<",", " ">>)}

----------------------------------------------------------------------------
(* The state machine: each action is one call of the package by a caller.  *)

RECURSIVE Parts(_)
\* The number of lines and qualifiers of a batch.
Parts(ls) ==
    IF ls = <<>> THEN 0
    ELSE 1 + (IF Head(ls).type = "Create" THEN 0 ELSE Len(Head(ls).qualifiers))
           + Parts(Tail(ls))

Init ==
    /\ pydantic \in Versions
    /\ lines = <<>>
    /\ res = [op |-> "start"]

\* The caller keeps a constructed line in its batch (keep) or only looks at
\* the constructor's outcome.
Kept(out, keep) == IF keep /\ out.ok THEN Append(lines, out.obj) ELSE lines

NewCreateLine ==
    /\ Parts(lines) + 1 <= MaxParts
    /\ res' = [op |-> "CreateLine", out |-> CreateLine]
    /\ lines' = Kept(CreateLine, TRUE)
    /\ UNCHANGED pydantic

NewEntityLine(S, P, T, Qs, keep) ==
    \E s \in S, p \in P, t \in T, qs \in Qs :
        LET out == EntityLine(pydantic, s, p, t, qs)
        IN  /\ keep => Parts(lines) + 1 + Len(qs) <= MaxParts
            /\ res' = [op |-> "EntityLine", subject |-> s, predicate |-> p,
                       target |-> t, qualifiers |-> qs, out |-> out]
            /\ lines' = Kept(out, keep)
            /\ UNCHANGED pydantic

NewTextLine(S, P, T, Qs, keep) ==
    \E s \in S, p \in P, t \in T, qs \in Qs :
        LET out == TextLine(pydantic, s, p, t, qs)
        IN  /\ keep => Parts(lines) + 1 + Len(qs) <= MaxParts
            /\ res' = [op |-> "TextLine", subject |-> s, predicate |-> p,
                       target |-> t, qualifiers |-> qs, out |-> out]
            /\ lines' = Kept(out, keep)
            /\ UNCHANGED pydantic

NewEntityQualifier ==
    \E p \in QualifierIdInputs, t \in QualifierIdInputs :
        /\ res' = [op |-> "EntityQualifier", predicate |-> p, target |-> t,
                   out |-> EntityQualifier(pydantic, p, t)]
        /\ UNCHANGED <<pydantic, lines>>

NewDateQualifier ==
    \E p \in QualifierIdInputs, t \in TextInputs :
        /\ res' = [op |-> "DateQualifier", predicate |-> p, target |-> t,
                   out |-> DateQualifier(pydantic, p, t)]
        /\ UNCHANGED <<pydantic, lines>>

NewTextQualifier ==
    \E p \in QualifierIdInputs, t \in TextInputs :
        /\ res' = [op |-> "TextQualifier", predicate |-> p, target |-> t,
                   out |-> TextQualifier(pydantic, p, t)]
        /\ UNCHANGED <<pydantic, lines>>

GetLine ==
    \E k \in 1..Len(lines), sep \in SepArgs :
        /\ res' = [op |-> "get_line", line |-> lines[k], sep |-> sep,
                   out |-> CallGetLine(lines[k], sep)]
        /\ UNCHANGED <<pydantic, lines>>

RenderLines ==
    \E sep \in SepArgs, newline \in {None, Some(NL)} :
        /\ res' = [op |-> "render_lines", lines |-> lines, sep |-> sep,
                   newline |-> newline, out |-> CallRenderLines(lines, sep, newline)]
        /\ UNCHANGED <<pydantic, lines>>

LinesToUrl ==
    /\ res' = [op |-> "lines_to_url", lines |-> lines,
               out |-> IF CallRenderLines(lines, None, None).ok
                        THEN Returned(lines_to_url(lines))
                        ELSE Raised("TypeError")]
    /\ UNCHANGED <<pydantic, lines>>

LinesToNewTab ==
    \E launched \in BOOLEAN :
        /\ res' = [op |-> "lines_to_new_tab", lines |-> lines,
                   out |-> lines_to_new_tab(lines, launched)]
        /\ UNCHANGED <<pydantic, lines>>

OpenNewTab ==
    \E launched \in BOOLEAN :
        /\ res' = [op |-> "open_new_tab", lines |-> lines,
                   out |-> open_new_tab(lines, launched)]
        /\ UNCHANGED <<pydantic, lines>>

\* The sequences of constructed qualifiers a line of a batch is given.
QualifierSeqs == [v \in Versions |-> SeqsUpTo(BatchQualifiers(v), MaxParts - 1)]

\* A caller that has only constructed lines so far.
Building == res.op \in {"start", "CreateLine", "EntityLine", "TextLine"}

\* A batch is built line by line, of well-formed fields and of sequences of
\* constructed qualifiers, and then rendered; the renderers change nothing, so
\* each is applied once to every batch.
Next ==
    \/ Building /\ NewCreateLine
    \/ Building /\ NewEntityLine({LAST, Q1}, {P1}, {Q2}, QualifierSeqs[pydantic], TRUE)
    \/ Building /\ NewTextLine({LAST, Q1}, {P1}, {<<"a", "|", "\"">>},
                               QualifierSeqs[pydantic], TRUE)
    \/ Building /\ GetLine
    \/ Building /\ RenderLines
    \/ Building /\ LinesToUrl
    \/ Building /\ LinesToNewTab
    \/ Building /\ OpenNewTab

Spec == Init /\ [][Next]_vars

\* A caller that has made no call yet.
Fresh == res.op = "start"

\* A line or a qualifier is constructed from arbitrary field values; no
\* constructor reads what an earlier call left, so each call is tried once,
\* by a fresh caller.
NextModel ==
    \/ Fresh /\ NewEntityLine(SubjectInputs, PredicateInputs,
                              {Q2, <<"Q", "4", "9">>, <<"P", "2">>, <<"Q">>,
                               Q2 \o <<"x">>, <<"x">> \o Q2, Q2 \o NL, <<>>},
                              {<<>>}, FALSE)
    \/ Fresh /\ NewTextLine(SubjectInputs, PredicateInputs, TextInputs, {<<>>}, FALSE)
    \/ Fresh /\ NewEntityQualifier
    \/ Fresh /\ NewDateQualifier
    \/ Fresh /\ NewTextQualifier

SpecModel == Init /\ [][NextModel]_vars

PrecisionArgs == {None} \cup {Some(p) : p \in {-1, 0, 8, 9, 10, 11, 12, 13, 14, 15, 110}}

DateTargets ==
    Instants \cup {[kind |-> "str", s |-> t] : t \in TextInputs} \cup {[kind |-> "other"]}

PrepareDate ==
    \E target \in DateTargets, precision \in PrecisionArgs :
        /\ res' = [op |-> "prepare_date", target |-> target, precision |-> precision,
                   out |-> prepare_date(target, precision)]
        /\ UNCHANGED <<pydantic, lines>>

StartTime ==
    \E target \in DateTargets, precision \in PrecisionArgs :
        /\ res' = [op |-> "start_time", target |-> target, precision |-> precision,
                   out |-> start_time(pydantic, target, precision)]
        /\ UNCHANGED <<pydantic, lines>>

EndTime ==
    \E target \in DateTargets, precision \in PrecisionArgs :
        /\ res' = [op |-> "end_time", target |-> target, precision |-> precision,
                   out |-> end_time(pydantic, target, precision)]
        /\ UNCHANGED <<pydantic, lines>>

\* retrieved reads the clock: now is any instant. An omitted precision is the
\* signature's default, Some(11), one of PrecisionArgs.
Retrieved ==
    \E namespace \in {<<"P">>, <<"S">>}, precision \in PrecisionArgs, now \in Instants :
        /\ res' = [op |-> "retrieved", target |-> now, precision |-> precision,
                   namespace |-> namespace,
                   out |-> retrieved(pydantic, namespace, precision, now)]
        /\ UNCHANGED <<pydantic, lines>>

\* A date is encoded; the encoding reads nothing an earlier call left.
NextDate ==
    \/ Fresh /\ PrepareDate
    \/ Fresh /\ StartTime
    \/ Fresh /\ EndTime
    \/ Fresh /\ Retrieved

SpecDate == Init /\ [][NextDate]_vars

\* The values offered for a line's fields when objects are constructed, assigned
\* to and rendered: well-formed ones, a malformed string and a value that is
\* no str.
ObjectSubjects == {Q1, <<"x">>, PyNone}

\* line.field = value on a line of the batch. The models set no config, so
\* pydantic's BaseModel.__setattr__ stores the value of a declared field
\* unvalidated and raises ValueError for a name that is no field.
SetAttr ==
    \E k \in 1..Len(lines), field \in {"subject", "predicate", "target"},
       value \in ObjectSubjects :
        /\ res' = [op |-> "setattr", index |-> k, field |-> field, value |-> value,
                   out |-> IF lines[k].type = "Create" THEN Raised("ValueError")
                           ELSE Returned(None)]
        /\ lines' = IF lines[k].type = "Create" THEN lines
                     ELSE [lines EXCEPT ![k] = [@ EXCEPT ![field] = value]]
        /\ UNCHANGED pydantic

\* A caller that has built a batch and then assigned to an attribute.
Assigned == res.op = "setattr"

\* A caller whose constructions all succeeded: a validation error ends the
\* caller's run.
Proceeding == Building /\ (IF res.op = "start" THEN TRUE ELSE res.out.ok)

\* Lines are constructed from any values, an attribute of a kept line is
\* assigned to, and the batch is rendered.
NextObject ==
    \/ Proceeding /\ NewCreateLine
    \/ Proceeding /\ NewEntityLine(ObjectSubjects, {P1, PyNone}, {Q2, PyNone},
                                   {q \in QualifierSeqs[pydantic] : Len(q) <= 1}, TRUE)
    \/ Proceeding /\ NewTextLine(ObjectSubjects, {P1, PyNone},
                                 {<<"a", "|", "\"">>, PyNone},
                                 {q \in QualifierSeqs[pydantic] : Len(q) <= 1}, TRUE)
    \/ Proceeding /\ SetAttr
    \/ (Proceeding \/ Assigned) /\ GetLine
    \/ (Proceeding \/ Assigned) /\ RenderLines
    \/ (Proceeding \/ Assigned) /\ LinesToUrl

SpecObject == Init /\ [][NextObject]_vars

----------------------------------------------------------------------------
(* HTTP, as the requests library does it. The network answers a request    *)
(* with a transport failure, which requests raises ([kind |-> the error]), *)
(* or with an HTTP answer [kind |-> "http", code |-> the status code,      *)
(* body |-> the body]; a body is [json |-> FALSE] (no JSON text) or        *)
(* [json |-> TRUE, value |-> the JSON value]. A call of the package        *)
(* yields [out |-> its outcome, sent |-> the requests it issued, in        *)
(* order]; a request's timeout is Some(seconds) or None (wait for ever).   *)

Request(method, url, timeout) == [method |-> method, url |-> url, timeout |-> timeout]

Call(out, sent) == [out |-> out, sent |-> sent]

\* requests.Response.raise_for_status raises HTTPError for these codes.
IsHTTPError(code) == code \in 400..599

\* self.endpoint of a client constructed with the default base_url.
Endpoint == "https://quickstatements.toolforge.org/api.php"

\* QuickStatementsClient.post. credentials are the username and token the
\* client read from its arguments or the configuration, each Some(text) or None.
\* Response.parse_obj of the answer's JSON object requires its status.
post(credentials, ls, batch_name, timeout, answer) ==
    LET t == IF timeout.some THEN timeout.v ELSE 300
        parse_obj(value) ==
            IF value.status.some
            THEN Constructed([status |-> value.status.v, batch_id |-> value.batch_id])
            ELSE ValidationError({"status"})
        rendered == CallRenderLines(ls, None, None)
        failing == (IF credentials.username.some THEN {} ELSE {"username"})
                       \cup (IF credentials.token.some THEN {} ELSE {"token"})
        request == Request("POST", Endpoint, Some(t))
    IN  IF ~rendered.ok THEN Call(rendered, <<>>)
        ELSE IF failing # {} THEN Call(ValidationError(failing), <<>>)
        ELSE IF answer.kind # "http" THEN Call(Raised(answer.kind), <<request>>)
        ELSE IF ~answer.body.json THEN Call(Raised("JSONDecodeError"), <<request>>)
        ELSE Call(parse_obj(answer.body.value), <<request>>)

\* str.lower of ASCII text: the capital letters are Printable[34..59], each 32
\* places before its small letter.
Lower(s) ==
    [k \in 1..Len(s) |->
        IF \E j \in 34..59 : Printable[j] = s[k]
        THEN Printable[(CHOOSE j \in 34..59 : Printable[j] = s[k]) + 32]
        ELSE s[k]]

\* dict.get(key, default)
Get(dict, key, default) == IF key \in DOMAIN dict THEN dict[key] ELSE default

\* value or None, of a string.
OrNone(string) == IF string = <<>> THEN None ELSE Some(string)

\* What get_batch_info makes of the JSON value js of an answer: js holds data,
\* a mapping from batch ids (as text) to [commands |-> a mapping from command
\* states to counts, batch |-> the batch's metadata]. BatchInfo(...) validates
\* that status is one of the Literal's three values.
BatchInfoOf(js, batch_id) ==
    IF Decimal(batch_id) \notin DOMAIN js.data THEN Raised("KeyError")
    ELSE
        LET data == js.data[Decimal(batch_id)]
            commands == data.commands
            batch_data == data.batch
            status == Lower(batch_data.status)
        IN  Validated(
                IF status \in {<<"d", "o", "n", "e">>, <<"r", "u", "n">>,
                               <<"s", "t", "o", "p">>}
                THEN {} ELSE {"status"},
                [done |-> Get(commands, "DONE", 0), run |-> Get(commands, "RUN", 0),
                 error |-> Get(commands, "ERROR", 0), init |-> Get(commands, "INIT", 0),
                 last_item |-> OrNone(batch_data.last_item),
                 message |-> OrNone(batch_data.message),
                 name |-> OrNone(batch_data.name), status |-> status,
                 username |-> batch_data.user_name, user |-> batch_data.user])

\* get_batch_info without res.raise_for_status().
get_batch_info_unchecked(batch_id, timeout, answer) ==
    LET request == Request("GET", Endpoint, Some(Arg(timeout, 10)))
    IN  IF answer.kind # "http" THEN Call(Raised(answer.kind), <<request>>)
        ELSE IF ~answer.body.json THEN Call(Raised("JSONDecodeError"), <<request>>)
        ELSE Call(BatchInfoOf(answer.body.value, batch_id), <<request>>)

\* QuickStatementsClient.get_batch_info
get_batch_info(batch_id, timeout, answer) ==
    LET t == IF timeout.some THEN timeout.v ELSE 10
        request == Request("GET", Endpoint, Some(t))
    IN  IF answer.kind # "http" THEN Call(Raised(answer.kind), <<request>>)
        ELSE IF IsHTTPError(answer.code) THEN Call(Raised("HTTPError"), <<request>>)
        ELSE IF ~answer.body.json THEN Call(Raised("JSONDecodeError"), <<request>>)
        ELSE Call(BatchInfoOf(answer.body.value, batch_id), <<request>>)

\* The answers to a request: a transport failure, or a status code and one of
\* the bodies.
HttpAnswers(bodies) ==
    {[kind |-> "ConnectionError"], [kind |-> "Timeout"]}
        \cup [kind : {"http"}, code : {200, 404, 500}, body : bodies]

TimeoutArgs == {None, Some(1), Some(60)}

BatchIds == {235283, 7}

\* The bodies the batch-info endpoint answers with: no JSON, or the data of no
\* batch or of one, with some of the command counts and a status.
BatchInfoBodies ==
    LET counts == [c \in {"DONE", "RUN", "ERROR", "INIT"} |->
                      CASE c = "DONE" -> 122 [] c = "RUN" -> 1 [] c = "ERROR" -> 23
                        [] c = "INIT" -> 4]
        statuses == {<<"D", "O", "N", "E">>, <<"d", "o", "n", "e">>, <<"R", "u", "n">>,
                     <<"S", "T", "O", "P">>, <<"I", "N", "I", "T">>, <<>>}
        entries ==
            [commands : {[c \in S |-> counts[c]] :
                            S \in {{}, {"DONE", "ERROR"}, DOMAIN counts}},
             batch : [last_item : {<<>>, Q1}, message : {<<>>}, name : {<<>>},
                      status : statuses, user_name : {<<"u">>}, user : {1}]]
    IN  {[json |-> FALSE]}
            \cup {[json |-> TRUE, value |-> [data |-> [k \in K |-> e]]] :
                    K \in {{}} \cup {{Decimal(b)} : b \in BatchIds}, e \in entries}

GetBatchInfo ==
    \E batch_id \in BatchIds, timeout \in TimeoutArgs,
       answer \in HttpAnswers(BatchInfoBodies) :
        LET call == get_batch_info(batch_id, timeout, answer)
        IN  /\ res' = [op |-> "get_batch_info", batch_id |-> batch_id,
                       timeout |-> timeout, answer |-> answer,
                       sent |-> call.sent, out |-> call.out]
            /\ UNCHANGED <<pydantic, lines>>

\* A client with or without a username and a token submits a batch; the
\* endpoint answers with no JSON or with an object that may hold a status and
\* a batch id.
Post ==
    \E credentials \in [username : {None, Some("user")}, token : {None, Some("token")}],
       ls \in {<<>>, <<CreateLine.obj>>,
               <<CreateLine.obj,
                 TextLine("v2", LAST, <<"L", "e", "n">>, <<"a">>, <<>>).obj>>},
       batch_name \in {None, Some("b")}, timeout \in TimeoutArgs,
       answer \in HttpAnswers(
           {[json |-> FALSE]}
               \cup {[json |-> TRUE, value |-> [status |-> s, batch_id |-> b]] :
                       s \in {None, Some("OK"), Some("error")},
                       b \in {None, Some(235283)}}) :
        LET call == post(credentials, ls, batch_name, timeout, answer)
        IN  /\ res' = [op |-> "post", credentials |-> credentials, lines |-> ls,
                       batch_name |-> batch_name, timeout |-> timeout, answer |-> answer,
                       sent |-> call.sent, out |-> call.out]
            /\ UNCHANGED <<pydantic, lines>>

----------------------------------------------------------------------------
(* Lookups: the Wikidata SPARQL service and the ORCID API.                 *)

\* r"^Q[1-9]\d+$" and r"^P[1-9]\d+$"
WIKIDATA_ITEM_REGEX ==
    Cat(<<Bol, Lit(<<"Q">>), OneOf({"1", "2", "3", "4", "5", "6", "7", "8", "9"}),
          Plus(Digit), Eol>>)
WIKIDATA_PROP_REGEX ==
    Cat(<<Bol, Lit(<<"P">>), OneOf({"1", "2", "3", "4", "5", "6", "7", "8", "9"}),
          Plus(Digit), Eol>>)

\* r"^\d{4}-\d{4}-\d{4}-\d{3}(\d|X)$"
ORCID_RE ==
    LET d4 == <<Digit, Digit, Digit, Digit>>
        dash == <<Lit(<<"-">>)>>
    IN  Cat(<<Bol>> \o d4 \o dash \o d4 \o dash \o d4 \o dash
              \o <<Digit, Digit, Digit, Alt(<<Digit, Lit(<<"X">>)>>), Eol>>)

\* pattern.match(string) of a compiled pattern: Python's re.
ReMatch(pattern, string) == Matches("v1", pattern, string)

WIKIDATA_ENDPOINT == "https://query.wikidata.org/bigdata/namespace/wdq/sparql"

EntityPrefix ==
    <<"h", "t", "t", "p", ":", "/", "/", "w", "w", "w", ".", "w", "i", "k", "i",
    "d", "a", "t", "a", ".", "o", "r", "g", "/", "e", "n", "t", "i", "t", "y", "/">>

removeprefix(s, prefix) ==
    IF Len(s) >= Len(prefix) /\ SubSeq(s, 1, Len(prefix)) = prefix
    THEN SubSeq(s, Len(prefix) + 1, Len(s))
    ELSE s

_clean_value(value) == removeprefix(value, EntityPrefix)

\* query_wikidata. The JSON value of the answer holds the bindings, each a
\* mapping from a variable to its value; the return value is the list of the
\* bindings with cleaned values.
query_wikidata(timeout, answer) ==
    LET t == IF timeout.some THEN timeout.v ELSE 10
        request == Request("GET", WIKIDATA_ENDPOINT, Some(t))
    IN  IF answer.kind # "http" THEN Call(Raised(answer.kind), <<request>>)
        ELSE IF IsHTTPError(answer.code) THEN Call(Raised("HTTPError"), <<request>>)
        ELSE IF ~answer.body.json THEN Call(Raised("JSONDecodeError"), <<request>>)
        ELSE Call(Returned([k \in 1..Len(answer.body.value.bindings) |->
                              [key \in DOMAIN answer.body.value.bindings[k] |->
                                  _clean_value(answer.body.value.bindings[k][key])]]),
                  <<request>>)

\* The first record's value of a variable, None when there is no record.
FirstOf(call, variable) ==
    IF ~call.out.ok THEN call
    ELSE IF call.out.val = <<>> THEN Call(Returned(None), call.sent)
    ELSE IF variable \notin DOMAIN call.out.val[1] THEN Call(Raised("KeyError"), call.sent)
    ELSE Call(Returned(Some(call.out.val[1][variable])), call.sent)

get_qid(prop, value, timeout, answer) ==
    IF ~ReMatch(WIKIDATA_PROP_REGEX, prop) THEN Call(Raised("ValueError"), <<>>)
    ELSE FirstOf(query_wikidata(timeout, answer), "item")

get_image(item, timeout, answer) ==
    IF ~ReMatch(WIKIDATA_ITEM_REGEX, item) THEN Call(Raised("ValueError"), <<>>)
    ELSE FirstOf(query_wikidata(timeout, answer), "imageLabel")

\* get_orcid_data. The JSON value of the answer is [person |-> None or
\* Some([name |-> None or Some([given |-> .., family |-> ..])])], a name part
\* being None or Some(text).
get_orcid_data(orcid, timeout, answer) ==
    LET t == IF timeout.some THEN Some(10) ELSE None
        request == Request("GET", "https://orcid.org/{orcid}", t)
    IN  IF ~ReMatch(ORCID_RE, orcid) THEN Call(Raised("ValueError"), <<>>)
        ELSE IF answer.kind # "http" THEN Call(Raised(answer.kind), <<request>>)
        ELSE IF ~answer.body.json THEN Call(Raised("JSONDecodeError"), <<request>>)
        ELSE LET person == answer.body.value.person
             IN  IF ~person.some THEN Call(Returned(None), <<request>>)
                 ELSE IF ~person.v.name.some THEN Call(Returned(None), <<request>>)
                 ELSE IF ~person.v.name.v.given.some \/ ~person.v.name.v.family.some
                 THEN Call(Returned(None), <<request>>)
                 ELSE Call(Returned(Some([name |-> person.v.name.v.given.v \o <<" ">>
                                                     \o person.v.name.v.family.v])),
                           <<request>>)

\* The bindings the SPARQL service answers with.
Q47475003 == <<"Q", "4", "7", "4", "7", "5", "0", "0", "3">>

SparqlBodies ==
    {[json |-> FALSE]}
        \cup {[json |-> TRUE, value |-> [bindings |-> b]] :
                b \in {<<>>,
                       <<[key \in {"item"} |-> EntityPrefix \o Q47475003]>>,
                       <<[key \in {"imageLabel"} |->
                            <<"h", "t", "t", "p", ":", "/", "/", "c", "o", "m", "m",
                              "o", "n", "s", ".", "w", "i", "k", "i", "m", "e", "d",
                              "i", "a", ".", "o", "r", "g", "/", "x", ".", "j", "p",
                              "g">>]>>}}

\* The ORCID API's answers.
OrcidBodies ==
    LET names == {None, Some(<<"C", "h", "e", "n">>)}
        people == {None, Some([name |-> None])}
                    \cup {Some([name |-> Some([given |-> g, family |-> f])]) :
                            g \in names, f \in names}
    IN  {[json |-> FALSE]} \cup {[json |-> TRUE, value |-> [person |-> p]] : p \in people}

Orcid4370 ==
    <<"0", "0", "0", "0", "-", "0", "0", "0", "3", "-", "4", "4", "2", "3", "-",
    "4", "3", "7", "0">>

QueryWikidata ==
    \E timeout \in TimeoutArgs, answer \in HttpAnswers(SparqlBodies) :
        LET call == query_wikidata(timeout, answer)
        IN  /\ res' = [op |-> "query_wikidata", timeout |-> timeout, answer |-> answer,
                       sent |-> call.sent, out |-> call.out]
            /\ UNCHANGED <<pydantic, lines>>

GetQid ==
    \E prop \in {<<"P", "4", "9", "6">>, <<"P", "3", "1">>, <<"P", "6">>,
                 <<"P", "0", "6">>, <<"4", "9", "6">>, <<"P">>, <<"Q", "4", "2">>,
                 <<"P", "3", "1", "x">>, <<"P", "3", "1", "\n">>, <<>>},
       timeout \in TimeoutArgs, answer \in HttpAnswers(SparqlBodies) :
        LET call == get_qid(prop, Orcid4370, timeout, answer)
        IN  /\ res' = [op |-> "get_qid", id |-> prop, timeout |-> timeout,
                       answer |-> answer, sent |-> call.sent, out |-> call.out]
            /\ UNCHANGED <<pydantic, lines>>

GetImage ==
    \E item \in {Q47475003, <<"Q", "4", "2">>, <<"Q", "5">>, <<"Q", "0", "5">>,
                 <<"4", "7", "4", "7">>, <<"Q">>, <<"P", "3", "1">>,
                 <<"Q", "4", "2", "x">>, <<"Q", "4", "2", "\n">>, <<>>},
       timeout \in TimeoutArgs, answer \in HttpAnswers(SparqlBodies) :
        LET call == get_image(item, timeout, answer)
        IN  /\ res' = [op |-> "get_image", id |-> item, timeout |-> timeout,
                       answer |-> answer, sent |-> call.sent, out |-> call.out]
            /\ UNCHANGED <<pydantic, lines>>

GetOrcidData ==
    \E orcid \in {Orcid4370, SubSeq(Orcid4370, 1, 18) \o <<"X">>,
                  SubSeq(Orcid4370, 1, 18), <<>>},
       timeout \in TimeoutArgs, answer \in HttpAnswers(OrcidBodies) :
        LET call == get_orcid_data(orcid, timeout, answer)
        IN  /\ res' = [op |-> "get_orcid_data", orcid |-> orcid, timeout |-> timeout,
                       answer |-> answer, sent |-> call.sent, out |-> call.out]
            /\ UNCHANGED <<pydantic, lines>>

\* A call of the client or of a lookup; no call reads what an earlier one
\* left, so each is tried once, by a fresh caller.
NextNetwork ==
    \/ Fresh /\ Post
    \/ Fresh /\ GetBatchInfo
    \/ Fresh /\ QueryWikidata
    \/ Fresh /\ GetQid
    \/ Fresh /\ GetImage
    \/ Fresh /\ GetOrcidData

SpecNetwork == Init /\ [][NextNetwork]_vars

----------------------------------------------------------------------------
(* The line sources. A generator runs to its end or to its first error:    *)
(* it yields [yielded |-> the lines yielded, in order, out |-> how it      *)
(* ended, sent |-> the requests it issued].                                *)

Generated(yielded, out, sent) == [yielded |-> yielded, out |-> out, sent |-> sent]

RECURSIVE Yielded(_)
\* The objects of the constructions before the first that fails.
Yielded(made) ==
    IF made = <<>> THEN <<>>
    ELSE IF ~Head(made).ok THEN <<>>
    ELSE <<Head(made).obj>> \o Yielded(Tail(made))

RECURSIVE Ending(_)
\* How a generator of these constructions ends: with the first failure, or by
\* returning.
Ending(made) ==
    IF made = <<>> THEN Returned(None)
    ELSE IF ~Head(made).ok THEN Head(made)
    ELSE Ending(Tail(made))

\* not value, of None or a string.
Falsy(value) == ~value.some \/ value.v = <<>>

\* SubjectOf naming a created item by a QID of its own.
SubjectOfNew(qid) == IF Falsy(qid) THEN <<"Q", "0">> ELSE qid.v

\* The subject of a source's statements: the item found, or LAST for the item
\* the source creates.
SubjectOf(qid) == IF Falsy(qid) THEN LAST ELSE qid.v

\* ReturnsEmpty of a source that creates whatever create says.
ReturnsEmptyNever(qid, create) == FALSE

\* A source ends at once, with no line, when it found no item and is not to
\* create one.
ReturnsEmpty(qid, create) == Falsy(qid) /\ ~create

OrcidPrefix ==
    <<"h", "t", "t", "p", "s", ":", "/", "/", "o", "r", "c", "i", "d", ".", "o",
    "r", "g", "/">>

\* get_orcid_qid
get_orcid_qid(orcid, answer) ==
    IF ~ReMatch(ORCID_RE, orcid) THEN Call(Raised("ValueError"), <<>>)
    ELSE get_qid(<<"P", "4", "9", "6">>, orcid, None, answer)

\* OrcidStatements with the occupation before the instance statement.
OrcidStatementsOccupationFirst(version, subject, orcid, now) ==
    LET qualifiers == <<TextQualifier(version, <<"S", "8", "5", "4">>,
                                      OrcidPrefix \o orcid).obj,
                        retrieved(version, <<"S">>, Some(11), now).obj>>
    IN  <<EntityLine(version, subject, <<"P", "1", "0", "6">>,
                     <<"Q", "1", "6", "5", "0", "9", "1", "5">>, qualifiers),
          EntityLine(version, subject, <<"P", "3", "1">>, <<"Q", "5">>, qualifiers),
          TextLine(version, subject, <<"P", "4", "9", "6">>, orcid, qualifiers)>>

\* The three statements iter_orcid_lines makes about subject.
OrcidStatements(version, subject, orcid, now) ==
    LET pypi_qualifier == TextQualifier(version, <<"S", "8", "5", "4">>, OrcidPrefix \o orcid)
        retrieved_qualifier == retrieved(version, <<"S">>, Some(11), now)
        qualifiers == <<pypi_qualifier.obj, retrieved_qualifier.obj>>
    IN  <<EntityLine(version, subject, <<"P", "3", "1">>, <<"Q", "5">>, qualifiers),
          EntityLine(version, subject, <<"P", "1", "0", "6">>,
                     <<"Q", "1", "6", "5", "0", "9", "1", "5">>, qualifiers),
          TextLine(version, subject, <<"P", "4", "9", "6">>, orcid, qualifiers)>>

\* iter_orcid_lines, run to its end. orcidAnswer and sparqlAnswer are the
\* answers to its two requests, now the instant the clock shows.
iter_orcid_lines(version, orcid, create, append, orcidAnswer, sparqlAnswer, now) ==
    IF ~ReMatch(ORCID_RE, orcid) THEN Generated(<<>>, Raised("ValueError"), <<>>)
    ELSE
        LET data == get_orcid_data(orcid, None, orcidAnswer)
            orcid_qid == get_orcid_qid(orcid, sparqlAnswer)
            sent == data.sent \o orcid_qid.sent
        IN  IF ~data.out.ok THEN Generated(<<>>, data.out, data.sent)
            ELSE IF ~orcid_qid.out.ok THEN Generated(<<>>, orcid_qid.out, sent)
            ELSE IF Falsy(orcid_qid.out.val)
            THEN IF ReturnsEmpty(orcid_qid.out.val, create) \/ ~data.out.val.some
                 THEN Generated(<<>>, Returned(None), sent)
                 ELSE LET subject == SubjectOf(orcid_qid.out.val)
                          made == <<CreateLine,
                                    TextLine(version, subject, <<"L", "e", "n">>,
                                             data.out.val.v.name, <<>>),
                                    TextLine(version, subject, <<"D", "e", "n">>,
                                             <<"R", "e", "s", "e", "a", "r", "c", "h",
                                               "e", "r", " ", "O", "R", "C", "I", "D",
                                               "=">> \o orcid,
                                             <<>>)>>
                                      \o OrcidStatements(version, subject, orcid, now)
                      IN  Generated(Yielded(made), Ending(made), sent)
            ELSE IF ~append THEN Generated(<<>>, Returned(None), sent)
            ELSE LET made == OrcidStatements(version, SubjectOf(orcid_qid.out.val), orcid,
                                             now)
                 IN  Generated(Yielded(made), Ending(made), sent)

RECURSIVE Replace(_, _, _)
\* str.replace of the one character old by the text new.
Replace(s, old, new) ==
    IF s = <<>> THEN <<>>
    ELSE (IF Head(s) = old THEN new ELSE <<Head(s)>>) \o Replace(Tail(s), old, new)

\* _norm of None or a string.
_norm(s) ==
    IF Falsy(s) THEN <<>>
    ELSE Replace(Replace(Lower(s.v), " ", <<>>), "-", <<>>)

RECURSIVE rstrip(_, _)
\* str.rstrip of one character.
rstrip(s, c) ==
    IF s # <<>> /\ s[Len(s)] = c THEN rstrip(SubSeq(s, 1, Len(s) - 1), c) ELSE s

\* The dict a comprehension builds from a sequence of <<key, value>> pairs: of
\* two pairs with one key the later one stays.
DictOf(pairs) ==
    [key \in {pairs[k][1] : k \in 1..Len(pairs)} |->
        pairs[CHOOSE k \in 1..Len(pairs) :
                /\ pairs[k][1] = key
                /\ \A j \in 1..Len(pairs) : pairs[j][1] = key => j <= k][2]]

\* dict.get(key), None when the key is absent.
Lookup(dict, key) == IF key \in DOMAIN dict THEN Some(dict[key]) ELSE None

\* _dict_get: data is the JSON object as its <<key, value>> pairs in order.
_dict_get(data, keys) ==
    LET normed == DictOf([k \in 1..Len(data) |-> <<_norm(Some(data[k][1])), data[k][2]>>])
        present == {k \in 1..Len(keys) : _norm(Some(keys[k])) \in DOMAIN normed}
    IN  IF present = {} THEN None
        ELSE Some(normed[_norm(Some(keys[CHOOSE k \in present : \A j \in present : k <= j]))])

\* The records of licenses.json: a license's short name and its item.
LICENSES ==
    <<[name |-> <<"M", "I", "T">>,
       item |-> EntityPrefix \o <<"Q", "3", "3", "4", "6", "6", "1">>]>>

load_licenses ==
    DictOf([k \in 1..Len(LICENSES) |->
              <<_norm(Some(LICENSES[k].name)), removeprefix(LICENSES[k].item, EntityPrefix)>>])

get_license_qid(name) == Lookup(load_licenses, _norm(Some(name)))

\* load_packages: the mapping made of the records the query gives, each with
\* the variables item and name.
load_packages(answer) ==
    LET call == query_wikidata(None, answer)
    IN  IF ~call.out.ok THEN call
        ELSE IF \E k \in 1..Len(call.out.val) : DOMAIN call.out.val[k] # {"item", "name"}
        THEN Call(Raised("KeyError"), call.sent)
        ELSE Call(Returned(DictOf([k \in 1..Len(call.out.val) |->
                                     <<_norm(Some(call.out.val[k]["name"])),
                                       call.out.val[k]["item"]>>])),
                  call.sent)

\* get_package_qid, of the mapping load_packages caches.
get_package_qid(packages, name) == Lookup(packages, _norm(Some(name)))

\* The module's git_qualifier and github_qualifier.
git_qualifier(version) ==
    EntityQualifier(version, <<"P", "8", "4", "2", "3">>,
                    <<"Q", "1", "8", "6", "0", "5", "5">>).obj

github_qualifier(version) ==
    EntityQualifier(version, <<"P", "1", "0", "6", "2", "7">>, <<"Q", "3", "6", "4">>).obj

RECURSIVE RequirementLines(_, _, _, _, _)
\* The lines of the loop over requires_dist: a requirement is split at its
\* first space (requirement.split(" ", 1)) and skipped when what follows holds
\* the text extra or when its package has no item.
RequirementLines(version, subject, qualifiers, packages, requirements) ==
    IF requirements = <<>> THEN <<>>
    ELSE LET requirement == Head(requirements)
             spaces == {k \in 1..Len(requirement) : requirement[k] = " "}
             first == CHOOSE k \in spaces : \A j \in spaces : k <= j
             parts == IF spaces = {} THEN <<requirement>>
                      ELSE <<SubSeq(requirement, 1, first - 1),
                             SubSeq(requirement, first + 1, Len(requirement))>>
             extra == <<"e", "x", "t", "r", "a">>
             has_extra(s) ==
                 \E k \in 0..(Len(s) - Len(extra)) :
                     SubSeq(s, k + 1, k + Len(extra)) = extra
             requirement_qid == get_package_qid(packages, parts[1])
             rest == RequirementLines(version, subject, qualifiers, packages,
                                      Tail(requirements))
         IN  IF Len(parts) > 1 /\ has_extra(parts[2]) THEN rest
             ELSE IF Falsy(requirement_qid) THEN rest
             ELSE <<EntityLine(version, subject, <<"P", "1", "5", "4", "7">>,
                               requirement_qid.v, qualifiers)>> \o rest

\* An absent or null entry of the metadata, as metadata.get(...) or its
\* default gives it.
OrEmpty(value, empty) == IF value.some THEN value.v ELSE empty

\* The statements iter_pypi_lines makes about subject, after the item's lines.
\* github is the first of the homepage, the source and the home_page that
\* starts with https://github.com/, None when there is none.
PypiStatements(version, subject, pypi_project, metadata, packages) ==
    LET qualifiers ==
            <<TextQualifier(version, <<"S", "8", "5", "4">>,
                            <<"h", "t", "t", "p", "s", ":", "/", "/", "p", "y", "p",
                              "i", ".", "o", "r", "g", "/", "p", "r", "o", "j", "e",
                              "c", "t", "/">> \o pypi_project).obj>>
        Statement(predicate, target) ==
            EntityLine(version, subject, predicate, target, qualifiers)
        Text(predicate, target) == TextLine(version, subject, predicate, target, qualifiers)
        license_qid == get_license_qid(OrEmpty(metadata.license, <<>>))
        project_urls == OrEmpty(metadata.project_urls, <<>>)
        homepage == _dict_get(project_urls, <<<<"h", "o", "m", "e", "p", "a", "g", "e">>>>)
        tracker == _dict_get(project_urls,
                             <<<<"t", "r", "a", "c", "k", "e", "r">>,
                               <<"b", "u", "g", " ", "t", "r", "a", "c", "k", "e", "r">>>>)
        source == _dict_get(project_urls,
                            <<<<"s", "o", "u", "r", "c", "e">>,
                              <<"s", "o", "u", "r", "c", "e", " ", "c", "o", "d", "e">>>>)
        urls == <<homepage, source, metadata.home_page>>
        prefix == <<"h", "t", "t", "p", "s", ":", "/", "/", "g", "i", "t", "h", "u",
                    "b", ".", "c", "o", "m", "/">>
        hits == {k \in 1..Len(urls) :
                    /\ ~Falsy(urls[k])
                    /\ Len(urls[k].v) >= Len(prefix)
                    /\ SubSeq(urls[k].v, 1, Len(prefix)) = prefix}
        github == IF hits = {} THEN None
                  ELSE urls[CHOOSE k \in hits : \A j \in hits : k <= j]
    IN  <<Statement(<<"P", "3", "1">>, <<"Q", "2", "9", "6", "4", "2", "9", "5", "0">>),
          Statement(<<"P", "3", "1">>, <<"Q", "7", "3", "9", "7">>),
          Statement(<<"P", "2", "7", "7">>, <<"Q", "2", "8", "8", "6", "5">>),
          Text(<<"P", "5", "5", "6", "8">>, pypi_project)>>
        \o (IF Falsy(license_qid) THEN <<>>
            ELSE <<Statement(<<"P", "6", "2", "1", "6">>,
                             <<"Q", "5", "0", "4", "2", "3", "8", "6", "3">>),
                   Statement(<<"P", "2", "7", "5">>, license_qid.v)>>)
        \o (IF Falsy(metadata.docs_url) THEN <<>>
            ELSE <<Text(<<"P", "2", "0", "7", "8">>, rstrip(metadata.docs_url.v, "/"))>>)
        \o (IF Falsy(homepage) THEN <<>>
            ELSE <<Text(<<"P", "8", "5", "6">>, rstrip(homepage.v, "/"))>>)
        \o (IF Falsy(tracker) THEN <<>>
            ELSE <<Text(<<"P", "1", "4", "0", "1">>, rstrip(tracker.v, "/"))>>)
        \o (IF ~github.some THEN <<>>
            ELSE <<TextLine(version, subject, <<"P", "1", "3", "2", "4">>,
                            rstrip(github.v, "/"),
                            qualifiers \o <<git_qualifier(version),
                                            github_qualifier(version)>>)>>)
        \o RequirementLines(version, subject, qualifiers, packages,
                            OrEmpty(metadata.requires_dist, <<>>))

\* iter_pypi_lines, run to its end. pypiAnswer is the answer of PyPI, whose
\* JSON value is [info |-> None or Some(the metadata)], sparqlAnswer the answer
\* to the query of load_packages.
iter_pypi_lines(version, pypi_project, create, pypiAnswer, sparqlAnswer) ==
    LET project == Replace(pypi_project, "_", <<"-">>)
        request == Request("GET", "https://pypi.org/pypi/{pypi_project}/json", None)
    IN  IF pypiAnswer.kind # "http" THEN Generated(<<>>, Raised(pypiAnswer.kind), <<request>>)
        ELSE IF ~pypiAnswer.body.json
        THEN Generated(<<>>, Raised("JSONDecodeError"), <<request>>)
        ELSE IF ~pypiAnswer.body.value.info.some
        THEN Generated(<<>>, Raised("KeyError"), <<request>>)
        ELSE
            LET metadata == pypiAnswer.body.value.info.v
                packages == load_packages(sparqlAnswer)
                sent == <<request>> \o packages.sent
            IN  IF ~packages.out.ok THEN Generated(<<>>, packages.out, sent)
                ELSE
                    LET package_qid == get_package_qid(packages.out.val, project)
                        subject == SubjectOf(package_qid)
                        made ==
                            (IF Falsy(package_qid)
                             THEN <<CreateLine,
                                    TextLine(version, subject, <<"L", "e", "n">>,
                                             metadata.name, <<>>),
                                    TextLine(version, subject, <<"D", "e", "n">>,
                                             <<"P", "y", "t", "h", "o", "n", " ", "s",
                                               "o", "f", "t", "w", "a", "r", "e", " ",
                                               "p", "a", "c", "k", "a", "g", "e">>,
                                             <<>>)>>
                             ELSE <<>>)
                            \o PypiStatements(version, subject, project, metadata,
                                              packages.out.val)
                    IN  IF ReturnsEmpty(package_qid, create)
                        THEN Generated(<<>>, Returned(None), sent)
                        ELSE Generated(Yielded(made), Ending(made), sent)

\* The bodies PyPI answers with: no JSON, no info, or the metadata of a
\* project.
PypiBodies ==
    LET repository == <<"h", "t", "t", "p", "s", ":", "/", "/", "g", "i", "t", "h",
                        "u", "b", ".", "c", "o", "m", "/", "y", "0", "/", "y", "0">>
        docs == <<"h", "t", "t", "p", "s", ":", "/", "/", "y", "0", ".", "i", "o", "/">>
        metadata ==
            {[name |-> <<"y", "0">>, license |-> None, docs_url |-> None,
              project_urls |-> None, home_page |-> None, requires_dist |-> None],
             [name |-> <<"y", "0">>, license |-> Some(<<"M", "I", "T">>),
              docs_url |-> Some(docs),
              project_urls |->
                  Some(<<<<<<"H", "o", "m", "e", "p", "a", "g", "e">>,
                           repository \o <<"/">>>>,
                         <<<<"B", "u", "g", " ", "T", "r", "a", "c", "k", "e", "r">>,
                           docs>>>>),
              home_page |-> Some(<<>>),
              requires_dist |->
                  Some(<<<<"d", "e", "p">>,
                         <<"x", " ", ";", " ", "e", "x", "t", "r", "a">>,
                         <<"n", "o">>>>)],
             [name |-> <<"A", " ", "B">>, license |-> Some(<<"X">>), docs_url |-> None,
              project_urls |->
                  Some(<<<<<<"S", "o", "u", "r", "c", "e", " ", "C", "o", "d", "e">>,
                           docs>>>>),
              home_page |-> Some(repository), requires_dist |-> Some(<<>>)]}
    IN  {[json |-> FALSE], [json |-> TRUE, value |-> [info |-> None]]}
            \cup {[json |-> TRUE, value |-> [info |-> Some(m)]] : m \in metadata}

\* The bodies the SPARQL service answers the query of load_packages with: no
\* JSON, or the records of the packages Wikidata knows.
PackageBodies ==
    LET record(name, qid) ==
            [key \in {"item", "name"} |->
                IF key = "item" THEN EntityPrefix \o qid ELSE name]
    IN  {[json |-> FALSE]}
            \cup {[json |-> TRUE, value |-> [bindings |-> b]] :
                    b \in {<<>>,
                           <<record(<<"d", "e", "p">>, <<"Q", "7", "7">>)>>,
                           <<record(<<"Y", "0">>, <<"Q", "4", "2">>),
                             record(<<"a", "-", "b">>, <<"Q", "4", "3">>),
                             record(<<"d", "e", "p">>, <<"Q", "7", "7">>)>>}}

IterPypiLines ==
    \E pypi_project \in {<<"y", "0">>, <<"a", "_", "b">>}, create \in BOOLEAN,
       pypiAnswer \in HttpAnswers(PypiBodies), sparqlAnswer \in HttpAnswers(PackageBodies) :
        LET run == iter_pypi_lines(pydantic, pypi_project, create, pypiAnswer, sparqlAnswer)
        IN  /\ res' = [op |-> "iter_pypi_lines", pypi_project |-> pypi_project,
                       create |-> create, pypiAnswer |-> pypiAnswer,
                       sparqlAnswer |-> sparqlAnswer, yielded |-> run.yielded,
                       sent |-> run.sent, out |-> run.out]
            /\ UNCHANGED <<pydantic, lines>>

IterOrcidLines ==
    \E orcid \in {Orcid4370, <<>>}, create \in BOOLEAN, append \in BOOLEAN,
       orcidAnswer \in HttpAnswers(OrcidBodies), sparqlAnswer \in HttpAnswers(SparqlBodies),
       now \in {Feb15, [kind |-> "datetime", year |-> 2026, month |-> 11, day |-> 5,
                        hour |-> 13, minute |-> 5, second |-> 9]} :
        LET run == iter_orcid_lines(pydantic, orcid, create, append, orcidAnswer,
                                    sparqlAnswer, now)
        IN  /\ res' = [op |-> "iter_orcid_lines", orcid |-> orcid, create |-> create,
                       append |-> append, orcidAnswer |-> orcidAnswer,
                       sparqlAnswer |-> sparqlAnswer, yielded |-> run.yielded,
                       sent |-> run.sent, out |-> run.out]
            /\ UNCHANGED <<pydantic, lines>>

\* A line source is run to its end; no run reads what an earlier one left.
NextSource ==
    \/ Fresh /\ IterOrcidLines
    \/ Fresh /\ IterPypiLines

SpecSource == Init /\ [][NextSource]_vars

----------------------------------------------------------------------------
(* The maintenance commands. A command runs to its end or to its first     *)
(* error: it yields [out |-> how it ended, sent |-> the requests it        *)
(* issued, opened |-> the browser tabs it opened], each in order.          *)

\* annotate_missing_follows.main. sparqlAnswer answers the query, postAnswer
\* the submission; credentials are what QuickStatementsClient() reads from the
\* configuration. sys.exit(0) raises SystemExit.
annotate_missing_follows(version, non_interactive, credentials, sparqlAnswer, postAnswer, launched) ==
    LET records == query_wikidata(None, sparqlAnswer)
        made == [k \in 1..Len(records.out.val) |->
                    IF {"postprint", "preprint"} \subseteq DOMAIN records.out.val[k]
                    THEN EntityLine(version, records.out.val[k]["postprint"],
                                    <<"P", "1", "5", "5">>,
                                    records.out.val[k]["preprint"], <<>>)
                    ELSE Raised("KeyError")]
        ls == Yielded(made)
        posted == post(credentials, ls, Some("Preprint Maintenance"), None, postAnswer)
    IN  IF ~records.out.ok
        THEN [out |-> records.out, sent |-> records.sent, opened |-> <<>>]
        ELSE IF ~Ending(made).ok
        THEN [out |-> Ending(made), sent |-> records.sent, opened |-> <<>>]
        ELSE IF ls = <<>>
        THEN [out |-> Raised("SystemExit"), sent |-> records.sent, opened |-> <<>>]
        ELSE IF non_interactive
        THEN [out |-> IF posted.out.ok THEN Returned(None) ELSE posted.out,
              sent |-> records.sent \o posted.sent, opened |-> <<>>]
        ELSE [out |-> Returned(None), sent |-> records.sent,
              opened |-> open_new_tab(ls, launched).opened]

\* annotate_missing_followed_by.main
annotate_missing_followed_by(version, non_interactive, credentials, sparqlAnswer, postAnswer, launched) ==
    LET records == query_wikidata(None, sparqlAnswer)
        made == [k \in 1..Len(records.out.val) |->
                    IF {"postprint", "preprint"} \subseteq DOMAIN records.out.val[k]
                    THEN EntityLine(version, records.out.val[k]["preprint"],
                                    <<"P", "1", "5", "6">>,
                                    records.out.val[k]["postprint"], <<>>)
                    ELSE Raised("KeyError")]
        ls == Yielded(made)
        posted == post(credentials, ls, Some("Postprint Maintenance"), None, postAnswer)
    IN  IF ~records.out.ok
        THEN [out |-> records.out, sent |-> records.sent, opened |-> <<>>]
        ELSE IF ~Ending(made).ok
        THEN [out |-> Ending(made), sent |-> records.sent, opened |-> <<>>]
        ELSE IF non_interactive
        THEN [out |-> IF posted.out.ok THEN Returned(None) ELSE posted.out,
              sent |-> records.sent \o posted.sent, opened |-> <<>>]
        ELSE [out |-> Returned(None), sent |-> records.sent,
              opened |-> open_new_tab(ls, launched).opened]

\* cli.maintain: ctx.invoke calls each command's callback with the defaults
\* of its options, so non_interactive is False and nothing is posted (the
\* answer given for a submission is never read). An exception of the first
\* step, SystemExit included, ends the run. steps are the steps invoked.
maintain(version, credentials, firstAnswer, secondAnswer, launched) ==
    LET unread == [kind |-> "ConnectionError"]
        first == annotate_missing_follows(version, FALSE, credentials, firstAnswer,
                                          unread, launched)
        second == annotate_missing_followed_by(version, FALSE, credentials,
                                               secondAnswer, unread, launched)
    IN  IF ~first.out.ok
        THEN [steps |-> <<"annotate_missing_follows">>, out |-> first.out,
              sent |-> first.sent, opened |-> first.opened]
        ELSE [steps |-> <<"annotate_missing_follows", "annotate_missing_followed_by">>,
              out |-> second.out, sent |-> first.sent \o second.sent,
              opened |-> first.opened \o second.opened]

\* The bodies the SPARQL service answers a maintenance query with: no JSON, or
\* rows of a preprint and a postprint; a row may lack a variable or bind one
\* to a value that is no item.
MaintenanceBodies ==
    LET row(preprint, postprint) ==
            [key \in {"preprint", "postprint"} |->
                IF key = "preprint" THEN preprint ELSE postprint]
    IN  {[json |-> FALSE]}
            \cup {[json |-> TRUE, value |-> [bindings |-> b]] :
                    b \in {<<>>,
                           <<row(EntityPrefix \o Q1, EntityPrefix \o Q2)>>,
                           <<row(EntityPrefix \o Q1, EntityPrefix \o Q2),
                             row(EntityPrefix \o Q47475003, EntityPrefix \o Q1)>>,
                           <<[key \in {"preprint"} |-> EntityPrefix \o Q1]>>,
                           <<row(EntityPrefix \o Q1, <<"x">>)>>}}

\* The answers to a submission: a failure, or a status code with no JSON or
\* with the object of an accepted batch.
SubmissionAnswers ==
    HttpAnswers({[json |-> FALSE],
                 [json |-> TRUE, value |-> [status |-> Some("OK"),
                                            batch_id |-> Some(235283)]]})

\* A command is run by a client whose configuration holds a token and may
\* hold a username.
AnnotateMissingFollows ==
    \E non_interactive \in BOOLEAN,
       credentials \in [username : {None, Some("user")}, token : {Some("token")}],
       sparqlAnswer \in HttpAnswers(MaintenanceBodies),
       postAnswer \in SubmissionAnswers, launched \in BOOLEAN :
        LET run == annotate_missing_follows(pydantic, non_interactive, credentials,
                                            sparqlAnswer, postAnswer, launched)
        IN  /\ res' = [op |-> "annotate_missing_follows",
                       non_interactive |-> non_interactive,
                       credentials |-> credentials, sparqlAnswer |-> sparqlAnswer,
                       postAnswer |-> postAnswer, launched |-> launched,
                       sent |-> run.sent, opened |-> run.opened, out |-> run.out]
            /\ UNCHANGED <<pydantic, lines>>

AnnotateMissingFollowedBy ==
    \E non_interactive \in BOOLEAN,
       credentials \in [username : {None, Some("user")}, token : {Some("token")}],
       sparqlAnswer \in HttpAnswers(MaintenanceBodies),
       postAnswer \in SubmissionAnswers, launched \in BOOLEAN :
        LET run == annotate_missing_followed_by(pydantic, non_interactive, credentials,
                                                sparqlAnswer, postAnswer, launched)
        IN  /\ res' = [op |-> "annotate_missing_followed_by",
                       non_interactive |-> non_interactive,
                       credentials |-> credentials, sparqlAnswer |-> sparqlAnswer,
                       postAnswer |-> postAnswer, launched |-> launched,
                       sent |-> run.sent, opened |-> run.opened, out |-> run.out]
            /\ UNCHANGED <<pydantic, lines>>

Maintain ==
    \E credentials \in [username : {None, Some("user")}, token : {Some("token")}],
       firstAnswer \in HttpAnswers(MaintenanceBodies),
       secondAnswer \in HttpAnswers(MaintenanceBodies), launched \in BOOLEAN :
        LET run == maintain(pydantic, credentials, firstAnswer, secondAnswer, launched)
        IN  /\ res' = [op |-> "maintain", credentials |-> credentials,
                       firstAnswer |-> firstAnswer, secondAnswer |-> secondAnswer,
                       launched |-> launched, steps |-> run.steps,
                       sent |-> run.sent, opened |-> run.opened, out |-> run.out]
            /\ UNCHANGED <<pydantic, lines>>

\* A command is run to its end; no run reads what an earlier one left.
NextMaintain ==
    \/ Fresh /\ AnnotateMissingFollows
    \/ Fresh /\ AnnotateMissingFollowedBy
    \/ Fresh /\ Maintain

SpecMaintain == Init /\ [][NextMaintain]_vars

----------------------------------------------------------------------------
(* The claims. What a claim expects is stated here on its own terms, apart *)
(* from the operators above that model the code.                           *)

RECURSIVE Glued(_, _)
\* The fields with sep between each two neighbours, built from the last field.
Glued(fields, sep) ==
    IF fields = <<>> THEN <<>>
    ELSE IF Len(fields) = 1 THEN fields[1]
    ELSE Glued(SubSeq(fields, 1, Len(fields) - 1), sep) \o sep \o fields[Len(fields)]

\* A target as the wire format shows it: in double quotes for a text object.
Shown(obj) ==
    IF obj.type = "Text" THEN <<"\"">> \o obj.target \o <<"\"">> ELSE obj.target

\* The 3 + 2n fields of a line with n qualifiers, in stored order.
FieldsOf(line) ==
    [k \in 1..(3 + 2 * Len(line.qualifiers)) |->
        IF k = 1 THEN line.subject
        ELSE IF k = 2 THEN line.predicate
        ELSE IF k = 3 THEN Shown(line)
        ELSE IF k % 2 = 0 THEN line.qualifiers[(k - 2) \div 2].predicate
        ELSE Shown(line.qualifiers[(k - 3) \div 2])]

Given(arg, default) == IF arg.some THEN arg.v ELSE default

\* C1: for every constructed EntityLine or TextLine and every separator,
\* get_line(sep) is the subject, the predicate, the shown target and, for each
\* qualifier in stored order, its predicate and shown target, joined by sep.
C1_GetLineJoinsFieldsInOrder ==
    (res.op = "get_line" /\ res.line.type # "Create")
        => res.out.val = Glued(FieldsOf(res.line), Given(res.sep, <<"|">>))

\* C1's case: get_line, with a separator of the caller's, of a line whose
\* two qualifiers are of different kinds.
C1_Witness ==
    /\ res.op = "get_line"
    /\ res.line.type = "Text"
    /\ res.sep.some
    /\ Len(res.line.qualifiers) = 2
    /\ res.line.qualifiers[1].type = "Date"
    /\ res.line.qualifiers[2].type = "Text"

\* What C2 expects of one line: the token CREATE, or get_line(sep).
RenderedLine(line, sep) ==
    IF line.type = "Create" THEN <<"C", "R", "E", "A", "T", "E">>
    ELSE Glued(FieldsOf(line), sep)

\* C2: render_lines(lines, sep, newline) is the lines' renderings (CREATE for a
\* CreateLine, get_line(sep) otherwise) joined by newline in input order, sep
\* defaulting to "|" and newline to "||"; of no lines it is the empty string.
C2_RenderLinesJoinsLines ==
    res.op = "render_lines"
        => /\ res.out.val =
                Glued([k \in 1..Len(res.lines) |->
                          RenderedLine(res.lines[k], Given(res.sep, <<"|">>))],
                      Given(res.newline, <<"|", "|">>))
           /\ res.lines = <<>> => res.out.val = <<>>

\* C2's case: a CreateLine and then a line with a qualifier, rendered with a
\* separator of the caller's and the default newline.
C2_Witness ==
    /\ res.op = "render_lines"
    /\ Len(res.lines) = 2
    /\ res.lines[1].type = "Create"
    /\ res.lines[2].type = "Entity"
    /\ Len(res.lines[2].qualifiers) = 1
    /\ res.sep.some
    /\ ~res.newline.some

\* Exactly the letter first, one of letters, then one or more digits.
IsId(letters, s) ==
    /\ Len(s) >= 2
    /\ s[1] \in letters
    /\ \A k \in 2..Len(s) : s[k] \in {"0", "1", "2", "3", "4", "5", "6", "7", "8", "9"}

IsLineOp == res.op \in {"EntityLine", "TextLine"}

\* A failed construction: a validation error and no object.
FailedValidation ==
    /\ ~res.out.ok
    /\ res.out.err = "ValidationError"
    /\ DOMAIN res.out = {"ok", "err", "fields"}

\* C3: constructing an EntityLine or TextLine succeeds only if the subject is
\* exactly LAST or exactly Q followed by digits; with any other subject it
\* fails with a validation error and there is no line object.
C3_SubjectIsLastOrQid ==
    (IsLineOp /\ ~(res.subject = <<"L", "A", "S", "T">> \/ IsId({"Q"}, res.subject)))
        => FailedValidation

\* C4: constructing an EntityLine or TextLine succeeds only if the predicate
\* is exactly P followed by digits, or exactly one of L, A, D followed by a
\* language code of LANGUAGE_CODES; with any other predicate it fails with a
\* validation error.
C4_PredicateIsPidOrLanguageCommand ==
    (IsLineOp /\ ~(\/ IsId({"P"}, res.predicate)
                   \/ /\ res.predicate # <<>>
                      /\ Head(res.predicate) \in {"L", "A", "D"}
                      /\ Tail(res.predicate) \in LANGUAGE_CODES))
        => FailedValidation

\* C5: constructing an EntityLine fails with a validation error unless its
\* target is exactly Q followed by digits; constructing an EntityQualifier,
\* DateQualifier or TextQualifier fails unless its predicate is exactly one of
\* P, Q, S followed by digits; constructing an EntityQualifier fails unless its
\* target is exactly one of P, Q, S followed by digits.
C5_TargetsAndQualifierIdsExact ==
    /\ (res.op = "EntityLine" /\ ~IsId({"Q"}, res.target)) => FailedValidation
    /\ (res.op \in {"EntityQualifier", "DateQualifier", "TextQualifier"}
            /\ ~IsId({"P", "Q", "S"}, res.predicate)) => FailedValidation
    /\ (res.op = "EntityQualifier" /\ ~IsId({"P", "Q", "S"}, res.target))
            => FailedValidation

\* The decimal digit of n at 10^k.
DigitAt(n, k) ==
    <<"0", "1", "2", "3", "4", "5", "6", "7", "8", "9">>[((n \div (10 ^ k)) % 10) + 1]

\* A component as the precision p keeps it: itself when p reaches the
\* component's level, 0 when the component is finer than p.
KeptAt(p, level, component) == IF p >= level THEN component ELSE 0

\* "+YYYY-MM-DDThh:mm:ssZ/p" of the instant t at a precision p of 9..14.
WireDate(t, p) ==
    LET y == KeptAt(p, 9, t.year)
        mo == KeptAt(p, 10, t.month)
        d == KeptAt(p, 11, t.day)
        h == KeptAt(p, 12, t.hour)
        mi == KeptAt(p, 13, t.minute)
        sec == KeptAt(p, 14, t.second)
    IN  <<"+", DigitAt(y, 3), DigitAt(y, 2), DigitAt(y, 1), DigitAt(y, 0),
          "-", DigitAt(mo, 1), DigitAt(mo, 0), "-", DigitAt(d, 1), DigitAt(d, 0),
          "T", DigitAt(h, 1), DigitAt(h, 0), ":", DigitAt(mi, 1), DigitAt(mi, 0),
          ":", DigitAt(sec, 1), DigitAt(sec, 0), "Z", "/">>
            \o (IF p = 9 THEN <<"9">> ELSE <<"1", DigitAt(p, 0)>>)

IsInstant(target) == target.kind = "datetime"

\* The precision asked for, an omitted one being 11.
Asked(precision) == IF precision.some THEN precision.v ELSE 11

\* C6: for every datetime t and every precision p of 9..14 (an omitted one
\* being 11), prepare_date(t, precision=p) is "+YYYY-MM-DDThh:mm:ssZ/p", the
\* year padded to 4 digits, the other components to 2, the components at or
\* coarser than p taken from t and every finer one 00.
C6_PrepareDateWireFormat ==
    (res.op = "prepare_date" /\ IsInstant(res.target) /\ Asked(res.precision) \in 9..14)
        => res.out.ok /\ res.out.val = WireDate(res.target, Asked(res.precision))

\* C6's case: month precision of an instant in year 7 with a day, an hour and
\* a second: the year is padded and the finer components are zeroed.
C6_Witness ==
    /\ res.op = "prepare_date"
    /\ IsInstant(res.target)
    /\ res.precision = Some(10)
    /\ res.target.year = 7 /\ res.target.day = 15 /\ res.target.hour = 13
    /\ res.out.ok
    /\ SubSeq(res.out.val, 1, 11) = <<"+", "0", "0", "0", "7", "-", "1", "1", "-", "0", "0">>

\* The error the code raises for an unsupported precision.
InvalidPrecision == "ValueError"

\* C7: for a datetime input, prepare_date with a precision outside 9..14
\* fails with the invalid-precision error and returns no date string; so do
\* DateQualifier.start_time, end_time and retrieved, which construct no qualifier.
C7_UnsupportedPrecisionFails ==
    (/\ res.op \in {"prepare_date", "start_time", "end_time", "retrieved"}
     /\ IsInstant(res.target)
     /\ Asked(res.precision) \notin 9..14)
        => /\ ~res.out.ok
           /\ res.out.err = InvalidPrecision
           /\ DOMAIN res.out = {"ok", "err"}

\* C7's case: start_time of an instant with precision 15 has failed.
C7_Witness ==
    /\ res.op = "start_time"
    /\ IsInstant(res.target)
    /\ res.precision = Some(15)
    /\ ~res.out.ok

RECURSIVE SplitOn(_, _)
\* str.split(c) for a single character c.
SplitOn(s, c) ==
    IF \A k \in 1..Len(s) : s[k] # c THEN <<s>>
    ELSE LET first == CHOOSE k \in 1..Len(s) : s[k] = c /\ \A j \in 1..(k - 1) : s[j] # c
         IN  <<SubSeq(s, 1, first - 1)>> \o SplitOn(SubSeq(s, first + 1, Len(s)), c)

\* C8: splitting the result of get_line() on "|" yields exactly 3 + 2n fields
\* for a line with n qualifiers: the subject, the predicate, the target and
\* the qualifiers' predicate/target pairs in order, also when a TextLine's or
\* TextQualifier's target holds "|" or a double quote.
C8_SplitRecoversFields ==
    (res.op = "get_line" /\ res.line.type # "Create" /\ ~res.sep.some)
        => SplitOn(res.out.val, "|") = FieldsOf(res.line)

HexValue(c) ==
    CHOOSE v \in 0..15 :
        <<"0", "1", "2", "3", "4", "5", "6", "7", "8", "9", "A", "B", "C", "D", "E", "F">>[v + 1] = c

IsHex(c) ==
    c \in {"0", "1", "2", "3", "4", "5", "6", "7", "8", "9", "A", "B", "C", "D", "E", "F"}

\* The characters RFC 3986 leaves unreserved.
IsUnreserved(c) ==
    \/ Ord(c) \in 48..57 \/ Ord(c) \in 65..90 \/ Ord(c) \in 97..122
    \/ c \in {"-", ".", "_", "~"}

\* Only unreserved characters and complete %XX escapes.
RECURSIVE FullyEncoded(_)
FullyEncoded(s) ==
    IF s = <<>> THEN TRUE
    ELSE IF Head(s) = "%"
         THEN Len(s) >= 3 /\ IsHex(s[2]) /\ IsHex(s[3])
                /\ FullyEncoded(SubSeq(s, 4, Len(s)))
         ELSE IsUnreserved(Head(s)) /\ FullyEncoded(Tail(s))

\* The bytes a fully encoded string stands for.
RECURSIVE DecodedBytes(_)
DecodedBytes(s) ==
    IF s = <<>> THEN <<>>
    ELSE IF Head(s) = "%"
         THEN <<16 * HexValue(s[2]) + HexValue(s[3])>> \o DecodedBytes(SubSeq(s, 4, Len(s)))
         ELSE <<Ord(Head(s))>> \o DecodedBytes(Tail(s))

\* The character of a code point.
CharOf(cp) ==
    IF cp = 10 THEN "\n" ELSE IF cp = 233 THEN "U+00E9" ELSE Printable[cp - 31]

\* The characters of a UTF-8 byte string (one- and two-byte sequences).
RECURSIVE Utf8Decoded(_)
Utf8Decoded(bytes) ==
    IF bytes = <<>> THEN <<>>
    ELSE IF Head(bytes) < 128
         THEN <<CharOf(Head(bytes))>> \o Utf8Decoded(Tail(bytes))
         ELSE <<CharOf((bytes[1] - 192) * 64 + (bytes[2] - 128))>>
                \o Utf8Decoded(SubSeq(bytes, 3, Len(bytes)))

\* The part of a URL after the fixed prefix.
Payload(url) == SubSeq(url, Len(UrlPrefix) + 1, Len(url))

\* The text format of a batch with the default separators.
Rendered(ls) ==
    Glued([k \in 1..Len(ls) |-> RenderedLine(ls[k], <<"|">>)], <<"|", "|">>)

\* C9: lines_to_url(lines) is the prefix https://quickstatements.toolforge.org/#/v1=
\* followed by the percent-encoding of render_lines(lines): no reserved
\* character ("|", the double quote, "+", "/", ":" among them) is left
\* unencoded, and percent-decoding the part after the prefix gives back
\* render_lines(lines) exactly.
C9_UrlIsPrefixPlusPercentEncoding ==
    res.op = "lines_to_url"
        => /\ Len(res.out.val) >= Len(UrlPrefix)
           /\ SubSeq(res.out.val, 1, Len(UrlPrefix)) = UrlPrefix
           /\ FullyEncoded(Payload(res.out.val))
           /\ \A k \in 1..Len(Payload(res.out.val)) :
                Payload(res.out.val)[k] \notin {"|", "\"", "+", "/", ":"}
           /\ Utf8Decoded(DecodedBytes(Payload(res.out.val))) = Rendered(res.lines)

\* C9's case: the URL of a batch whose text holds "|", a double quote, "+",
\* "/", ":", "%" and a non-ASCII character.
C9_Witness ==
    /\ res.op = "lines_to_url"
    /\ Len(res.lines) = 1
    /\ res.lines[1].type = "Text"
    /\ Len(res.lines[1].qualifiers) = 2
    /\ \A c \in {"|", "\"", "+", "/", ":", "%", "U+00E9"} :
            \E k \in 1..Len(Rendered(res.lines)) : Rendered(res.lines)[k] = c

\* C10: a call of an open-in-browser wrapper (model.lines_to_new_tab,
\* QuickStatementsClient.open_new_tab) with no lines is a no-op: it returns
\* false and opens no browser tab.
C10_EmptyBatchOpensNothing ==
    (res.op \in {"lines_to_new_tab", "open_new_tab"} /\ res.lines = <<>>)
        => res.out.val = FALSE /\ res.out.opened = <<>>

\* A line as its constructor yields it from the line's own field values.
AsConstructed(line) ==
    CASE line.type = "Create" -> TRUE
      [] line.type = "Entity" ->
            EntityLine(pydantic, line.subject, line.predicate, line.target,
                       line.qualifiers).ok
      [] line.type = "Text" ->
            TextLine(pydantic, line.subject, line.predicate, line.target,
                     line.qualifiers).ok

IsRendering == res.op \in {"get_line", "render_lines", "lines_to_url"}

\* The lines a rendering call was given.
RenderedLines == IF res.op = "get_line" THEN <<res.line>> ELSE res.lines

InPattern(line) ==
    \/ line.type = "Create"
    \/ /\ IsStr(line.subject) /\ Matches(pydantic, SubjectPattern, line.subject)
       /\ IsStr(line.predicate) /\ Matches(pydantic, PredicatePattern, line.predicate)
       /\ IsStr(line.target)
       /\ line.type = "Entity" => Matches(pydantic, EntityTargetPattern, line.target)

\* C12: no operation changes a line object of the batch (its type tag,
\* subject, predicate, target and qualifiers stay as constructed), and every
\* line that reaches the renderer matches its field patterns.
C12_LinesAreImmutable ==
    /\ [][\A k \in 1..Len(lines) : k <= Len(lines') /\ lines'[k] = lines[k]]_vars
    /\ [](IsRendering => \A k \in 1..Len(RenderedLines) : InPattern(RenderedLines[k]))

\* C13: prepare_date looks at the type of its input before the precision: for
\* every precision argument, unsupported codes included, a string is returned
\* unchanged and a value that is neither a string nor a datetime fails with
\* TypeError.
C13_PrepareDateDispatchesOnTypeFirst ==
    res.op = "prepare_date"
        => /\ res.target.kind = "str" => res.out = [ok |-> TRUE, val |-> res.target.s]
           /\ res.target.kind = "other" => res.out = [ok |-> FALSE, err |-> "TypeError"]

\* C13's case: a value that is neither a string nor a datetime, with a
\* precision code prepare_date does not support.
C13_Witness ==
    /\ res.op = "prepare_date"
    /\ res.target.kind = "other"
    /\ res.precision = [some |-> TRUE, v |-> 15]
    /\ ~res.out.ok

\* The call did not go through: no answer came, or the service answered with
\* an error status.
CallFailed == res.answer.kind # "http" \/ res.answer.code >= 400

\* C14: a call of post issues at most one HTTP POST; when the call fails (no
\* answer, a timeout, or an error answer of the service) the caller gets an
\* error and no Response.
C14_PostSubmitsOnceAndSurfacesErrors ==
    res.op = "post"
        => /\ Len(res.sent) <= 1
           /\ \A k \in 1..Len(res.sent) : res.sent[k].method = "POST"
           /\ (Len(res.sent) = 1 /\ CallFailed) => ~res.out.ok

\* Two texts that differ at most in the case of the letters of done, run, stop.
SameIgnoringCase(s, t) ==
    /\ Len(s) = Len(t)
    /\ \A k \in 1..Len(s) :
          \/ s[k] = t[k]
          \/ <<s[k], t[k]>> \in {<<"D", "d">>, <<"O", "o">>, <<"N", "n">>, <<"E", "e">>,
                                 <<"R", "r">>, <<"U", "u">>, <<"S", "s">>, <<"T", "t">>,
                                 <<"P", "p">>}

\* The answer is a successful HTTP answer whose payload has an entry for the
\* requested batch id.
HasEntry ==
    /\ res.answer.kind = "http"
    /\ res.answer.code \in 200..299
    /\ res.answer.body.json
    /\ \E key \in DOMAIN res.answer.body.value.data : key = Decimal(res.batch_id)

PayloadEntry == res.answer.body.value.data[Decimal(res.batch_id)]

CountOf(command) ==
    IF \E c \in DOMAIN PayloadEntry.commands : c = command
    THEN PayloadEntry.commands[command] ELSE 0

\* C15: get_batch_info returns a BatchInfo exactly when the HTTP answer is
\* successful, the payload has an entry for the batch id and the entry's
\* status is done, run or stop in any case; its counts are the entry's DONE,
\* RUN, ERROR and INIT counts, 0 for an absent one. Otherwise the caller gets
\* an error, a lookup error when the batch id is missing.
C15_BatchInfoOnlyFromGoodAnswer ==
    res.op = "get_batch_info"
        => /\ res.out.ok <=>
                (HasEntry /\ \E t \in {<<"d", "o", "n", "e">>, <<"r", "u", "n">>,
                                        <<"s", "t", "o", "p">>} :
                                SameIgnoringCase(PayloadEntry.batch.status, t))
           /\ res.out.ok =>
                /\ res.out.obj.done = CountOf("DONE")
                /\ res.out.obj.run = CountOf("RUN")
                /\ res.out.obj.error = CountOf("ERROR")
                /\ res.out.obj.init = CountOf("INIT")
           /\ ~res.out.ok => res.out.err \in {"ConnectionError", "Timeout", "HTTPError",
                                              "JSONDecodeError", "KeyError",
                                              "ValidationError"}
           /\ (res.answer.kind = "http" /\ res.answer.code \in 200..299
                    /\ res.answer.body.json /\ ~HasEntry)
                => ~res.out.ok /\ res.out.err = "KeyError"

\* C15's case: batch 235283 reported with status DONE in capitals and only
\* the DONE and ERROR counts.
C15_Witness ==
    /\ res.op = "get_batch_info"
    /\ res.batch_id = 235283
    /\ res.out.ok
    /\ res.out.obj.status = <<"d", "o", "n", "e">>
    /\ PayloadEntry.batch.status = <<"D", "O", "N", "E">>
    /\ res.out.obj.done = 122 /\ res.out.obj.error = 23
    /\ res.out.obj.run = 0 /\ res.out.obj.init = 0

\* The text is the letter followed by one or more digits.
IsLetterAndDigits(letter, s) ==
    /\ Len(s) >= 2
    /\ s[1] = letter
    /\ \A k \in 2..Len(s) : s[k] \in {"0", "1", "2", "3", "4", "5", "6", "7", "8", "9"}

\* C18: get_qid raises ValueError exactly when its property is not P followed
\* by digits, get_image exactly when its item is not Q followed by digits; a
\* call that raises ValueError has sent no query, and every well-formed id,
\* single-digit ones as P6 and Q5 included, is accepted and queried.
C18_LookupsRejectExactlyMalformedIds ==
    res.op \in {"get_qid", "get_image"}
        => LET wellFormed == IsLetterAndDigits(IF res.op = "get_qid" THEN "P" ELSE "Q",
                                               res.id)
               valueError == ~res.out.ok /\ res.out.err = "ValueError"
           IN  /\ valueError <=> ~wellFormed
               /\ valueError => res.sent = <<>>
               /\ wellFormed => Len(res.sent) = 1

\* C19: every request of post, get_batch_info, query_wikidata and
\* get_orcid_data carries a finite timeout: the caller's own when the caller
\* gave one, a default otherwise.
C19_RequestsCarryTheCallersTimeout ==
    res.op \in {"post", "get_batch_info", "query_wikidata", "get_orcid_data"}
        => \A k \in 1..Len(res.sent) :
                /\ res.sent[k].timeout.some
                /\ res.timeout.some => res.sent[k].timeout = res.timeout

\* A request was answered with HTTP 200 and a JSON body.
Answered(answer) == answer.kind = "http" /\ answer.code = 200 /\ answer.body.json

\* What the Wikidata lookup of a run found: an item, or nothing.
FoundItem ==
    /\ Answered(res.sparqlAnswer)
    /\ res.sparqlAnswer.body.value.bindings # <<>>
    /\ \E key \in DOMAIN res.sparqlAnswer.body.value.bindings[1] : key = "item"

FoundNothing ==
    Answered(res.sparqlAnswer) /\ res.sparqlAnswer.body.value.bindings = <<>>

\* The id of the item found: its URI without http://www.wikidata.org/entity/
\* (31 characters).
FoundQid ==
    LET uri == res.sparqlAnswer.body.value.bindings[1]["item"]
    IN  SubSeq(uri, 32, Len(uri))

\* The ORCID API gave the person's given and family name.
OrcidDataAvailable ==
    /\ Answered(res.orcidAnswer)
    /\ res.orcidAnswer.body.value.person.some
    /\ res.orcidAnswer.body.value.person.v.name.some
    /\ res.orcidAnswer.body.value.person.v.name.v.given.some
    /\ res.orcidAnswer.body.value.person.v.name.v.family.some

\* An ORCID: four groups of four digits joined by "-", the last character a
\* digit or X.
IsOrcid(s) ==
    /\ Len(s) = 19
    /\ \A k \in 1..19 :
          IF k \in {5, 10, 15} THEN s[k] = "-"
          ELSE \/ s[k] \in {"0", "1", "2", "3", "4", "5", "6", "7", "8", "9"}
               \/ k = 19 /\ s[k] = "X"

IsStatement(line, type, subject, predicate, target) ==
    /\ line.type = type
    /\ line.subject = subject
    /\ line.predicate = predicate
    /\ line.target = target

\* The lines from position first on are the three statements about subject.
ThreeStatements(first, subject) ==
    /\ IsStatement(res.yielded[first], "Entity", subject, <<"P", "3", "1">>, <<"Q", "5">>)
    /\ IsStatement(res.yielded[first + 1], "Entity", subject, <<"P", "1", "0", "6">>,
                   <<"Q", "1", "6", "5", "0", "9", "1", "5">>)
    /\ IsStatement(res.yielded[first + 2], "Text", subject, <<"P", "4", "9", "6">>,
                   res.orcid)

\* C16: iter_orcid_lines of an ORCID, its lookups answered, yields no lines when a QID
\* exists and append is false; exactly the three statements P31 -> Q5,
\* P106 -> Q1650915 and P496 -> the ORCID about that QID when a QID exists and
\* append is true; and exactly CreateLine, TextLine Len, TextLine Den and the
\* three statements about LAST when no QID exists, create is true and ORCID
\* data is available.
C16_OrcidLinesByCase ==
    (res.op = "iter_orcid_lines" /\ IsOrcid(res.orcid) /\ Answered(res.orcidAnswer))
        => /\ (FoundItem /\ ~res.append) => res.yielded = <<>>
           /\ (FoundItem /\ res.append)
                => Len(res.yielded) = 3 /\ ThreeStatements(1, FoundQid)
           /\ (FoundNothing /\ res.create /\ OrcidDataAvailable)
                => /\ Len(res.yielded) = 6
                   /\ res.yielded[1].type = "Create"
                   /\ res.yielded[2].type = "Text"
                   /\ res.yielded[2].predicate = <<"L", "e", "n">>
                   /\ res.yielded[3].type = "Text"
                   /\ res.yielded[3].predicate = <<"D", "e", "n">>
                   /\ ThreeStatements(4, <<"L", "A", "S", "T">>)

\* C16's case: a run that finds no QID and creates the item.
C16_Witness ==
    /\ res.op = "iter_orcid_lines"
    /\ FoundNothing /\ res.create /\ OrcidDataAvailable
    /\ Len(res.yielded) = 6
    /\ res.yielded[2].target = <<"C", "h", "e", "n", " ", "C", "h", "e", "n">>

NotSeparator(c) == c \notin {"-", "_", " "}

\* A package name without its separators, in small letters.
Squash(s) == SelectSeq(Lower(s), NotSeparator)

\* Wikidata answered and knows no package of the project's name.
NoPackageFound ==
    /\ Answered(res.sparqlAnswer)
    /\ \A k \in 1..Len(res.sparqlAnswer.body.value.bindings) :
            Squash(res.sparqlAnswer.body.value.bindings[k]["name"])
                # Squash(res.pypi_project)

\* C17: a run of iter_orcid_lines or iter_pypi_lines whose lookup finds no
\* Wikidata entry, with create false, yields no line at all: no CreateLine and
\* no line about LAST.
C17_NoEntryNoCreateYieldsNothing ==
    /\ (res.op = "iter_orcid_lines" /\ FoundNothing /\ ~res.create)
            => res.yielded = <<>>
    /\ (res.op = "iter_pypi_lines" /\ NoPackageFound /\ ~res.create)
            => res.yielded = <<>>

\* C17's case: PyPI gives the project's metadata, Wikidata knows other
\* packages only, and the caller asked for no creation.
C17_Witness ==
    /\ res.op = "iter_pypi_lines"
    /\ ~res.create
    /\ Answered(res.pypiAnswer) /\ res.pypiAnswer.body.value.info.some
    /\ NoPackageFound
    /\ res.sparqlAnswer.body.value.bindings # <<>>
    /\ res.out.ok

\* C20: in the lines a source yields, a line about LAST comes only after a
\* CreateLine; there is at most one CreateLine, and when there is one it is
\* the first line and every line after it is about LAST.
C20_LastOnlyAfterCreate ==
    res.op \in {"iter_orcid_lines", "iter_pypi_lines"}
        => LET creates == {k \in 1..Len(res.yielded) : res.yielded[k].type = "Create"}
           IN  /\ \A k \in 1..Len(res.yielded) :
                     (k \notin creates /\ res.yielded[k].subject = <<"L", "A", "S", "T">>)
                        => \E j \in creates : j < k
               /\ Cardinality(creates) <= 1
               /\ creates # {}
                    => /\ 1 \in creates
                       /\ \A k \in 2..Len(res.yielded) :
                             /\ k \notin creates
                             /\ res.yielded[k].subject = <<"L", "A", "S", "T">>

\* C20's case: a run of iter_pypi_lines that creates the item and states its
\* license, its addresses and a requirement.
C20_Witness ==
    /\ res.op = "iter_pypi_lines"
    /\ Len(res.yielded) >= 13
    /\ res.yielded[1].type = "Create"
    /\ res.yielded[Len(res.yielded)].predicate = <<"P", "1", "5", "4", "7">>

\* An outcome that is an error of the network: a transport failure, an HTTP
\* error status or an answer that is no JSON.
NetworkError(out) ==
    IF out.ok THEN FALSE
    ELSE out.err \in {"ConnectionError", "Timeout", "HTTPError", "JSONDecodeError"}

\* C21: a run of the maintain command in which no step raises a network error
\* executes both steps, annotate_missing_follows and then
\* annotate_missing_followed_by, whatever the first step's query returns.
C21_MaintainRunsBothSteps ==
    (res.op = "maintain" /\ ~NetworkError(res.out))
        => res.steps = <<"annotate_missing_follows", "annotate_missing_followed_by">>

\* A run of one maintenance command whose query was answered with rows, each
\* of two items, by a client that has its credentials.
IsMaintenance == res.op \in {"annotate_missing_follows", "annotate_missing_followed_by"}

RowsOf(answer) == answer.body.value.bindings

ItemRows(rows) ==
    \A k \in 1..Len(rows) :
        /\ DOMAIN rows[k] = {"preprint", "postprint"}
        /\ \A key \in DOMAIN rows[k] :
              /\ Len(rows[k][key]) > 32
              /\ rows[k][key][32] = "Q"
              /\ \A j \in 33..Len(rows[k][key]) : IsDigit(rows[k][key][j])

PostsSent == {k \in 1..Len(res.sent) : res.sent[k].method = "POST"}

\* C22: a maintenance command whose query returns no rows neither posts a
\* batch nor opens a browser tab; when rows exist it does exactly one of the
\* two, a single post when --non-interactive is set and a single browser
\* open otherwise.
C22_NoRowsNoActionElseExactlyOne ==
    (IsMaintenance /\ Answered(res.sparqlAnswer)) =>
        IF RowsOf(res.sparqlAnswer) = <<>>
        THEN PostsSent = {} /\ res.opened = <<>>
        ELSE (ItemRows(RowsOf(res.sparqlAnswer)) /\ res.credentials.username.some) =>
                IF res.non_interactive
                THEN Cardinality(PostsSent) = 1 /\ res.opened = <<>>
                ELSE PostsSent = {} /\ Len(res.opened) = 1

====
